---- MODULE Spec2Model ----
(***************************************************************************)
(* Model of the zonal resource provisioners of gyuho/infra:                *)
(*   - aws-volume-provisioner  (cmdFunc, EBS volumes with lease tags)      *)
(*   - aws-eni-provisioner     (cmdFunc, network interfaces)               *)
(*   - aws-ip-provisioner      (cmdFunc, elastic IPs)                      *)
(* The EC2 backend is modelled as shared state that every provisioner      *)
(* process reads and writes one API call at a time.                        *)
(***************************************************************************)
EXTENDS Integers, Sequences, FiniteSets, TLC

\* ------------------------------------------------------------------ bounds
MaxVols == 2
MaxTime == 601
MaxRestarts == 1
MaxEnis == 2
MaxEips == 2
MaxNetRestarts == 2
MaxLen == 2

\* ------------------------------------------------------- program constants
LeaseTimeoutSeconds == 600

\* ------------------------------------------------------------ configuration
Instances == {"i-1", "i-2"}
TickSteps == {601}
VolIds == 1..MaxVols
EniIds == 1..MaxEnis
EipIds == 1..MaxEips
\* the network provisioners run on the node that replaces FormerInstance
FormerInstance == "i-0"
RebootedInstance == "i-1"
NetInstances == {"i-1"}

az == "us-east-1a"
idTagKey == "Id"
idTagValue == "node"
kindTagKey == "Kind"
kindTagValue == "aws-volume-provisioner"
asgNameTagKey == "autoscaling:groupName"
asgNameTagValue == "asg-1"
volLeaseHoldKey == "LeaseHold"
eniKindTagValue == "aws-eni-provisioner"
eipKindTagValue == "aws-ip-provisioner"

NoVolume == [VolumeId |-> 0]
NoAttachment == <<>>
\* the volume state file does not exist (a file holds a volume id of VolIds)
NoFile == 0
NoNetFile == [exists |-> FALSE, content |-> <<>>]

VARIABLES now, vols, proc, instanceTags, curEBSVolIDFile, restarts
VARIABLES enis, eips, eniProc, eipProc, curENIsFile, curEIPsFile, netInstanceTags,
          netRestarts

VARIABLES codec, poller, query

volVars == <<now, vols, proc, instanceTags, curEBSVolIDFile, restarts>>
netVars == <<enis, eips, eniProc, eipProc, curENIsFile, curEIPsFile, netInstanceTags,
             netRestarts>>
auxVars == <<codec, poller, query>>
vars == <<volVars, netVars, auxVars>>

\* the values of codec, poller and query while they are not in use
IdleCodec == [pc |-> "off"]
IdlePoller == [pc |-> "off"]
IdleQuery == [pc |-> "off"]

\* --------------------------------------------------------- string helpers
DigitChars == <<"0", "1", "2", "3", "4", "5", "6", "7", "8", "9">>

DigitValue(c) == CHOOSE d \in 0..9 : DigitChars[d + 1] = c

IsDigit(c) == \E d \in 0..9 : DigitChars[d + 1] = c

RECURSIVE FormatInt(_)
FormatInt(n) ==
    IF n < 0 THEN <<"-">> \o FormatInt(0 - n)
    ELSE IF n < 10 THEN <<DigitChars[n + 1]>>
    ELSE Append(FormatInt(n \div 10), DigitChars[(n % 10) + 1])

RECURSIVE SplitFrom(_, _, _)
SplitFrom(s, sep, cur) ==
    IF s = <<>> THEN <<cur>>
    ELSE IF Head(s) = sep THEN <<cur>> \o SplitFrom(Tail(s), sep, <<>>)
    ELSE SplitFrom(Tail(s), sep, Append(cur, Head(s)))

Split(s, sep) == SplitFrom(s, sep, <<>>)

RECURSIVE DigitsValue(_, _)
DigitsValue(s, acc) ==
    IF s = <<>> THEN acc ELSE DigitsValue(Tail(s), acc * 10 + DigitValue(Head(s)))

\* strconv.ParseInt(s, 10, 64): optional sign, then one or more decimal digits
ParseInt(s) ==
    LET body == IF s # <<>> /\ Head(s) \in {"+", "-"} THEN Tail(s) ELSE s
        ok == body # <<>> /\ \A i \in 1..Len(body) : IsDigit(body[i])
        mag == IF ok THEN DigitsValue(body, 0) ELSE 0
    IN [ok |-> ok,
        val |-> IF s # <<>> /\ Head(s) = "-" THEN 0 - mag ELSE mag]

\* localInstanceID + "_" + fmt.Sprintf("%d", unixTS)
LeaseHoldValue(id, unixTS) == <<id>> \o <<"_">> \o FormatInt(unixTS)


\* ------------------------------------------------------------ EC2 backend
PoolTags == (idTagKey :> idTagValue) @@ (kindTagKey :> kindTagValue)
            @@ (asgNameTagKey :> asgNameTagValue)

AbsentVolume ==
    [state |-> "absent", zone |-> az, tags |-> <<>>, att |-> NoAttachment, fs |-> FALSE,
     createdBy |-> ""]

\* a volume of the pool that exists before any provisioner of the model ran
\* (created by an operator or an earlier deployment), with lease tag lease
PreexistingVolume(lease) ==
    [state |-> "available", zone |-> az,
     tags |-> IF lease = <<>> THEN PoolTags ELSE (volLeaseHoldKey :> lease) @@ PoolTags,
     att |-> NoAttachment, fs |-> TRUE, createdBy |-> ""]

\* lease values a pre-existing volume may carry: none, one left by an earlier
\* run on instance i-1 (at unix time 0 or 1), and values that were not written
\* by a provisioner
InitialLeases ==
    {<<>>, <<"i-1", "_", "0">>, <<"i-1", "_", "1">>, <<"i-1">>, <<"i-1", "_", "x">>}

Snapshot(v) ==
    [VolumeId |-> v, State |-> vols[v].state, Tags |-> vols[v].tags,
     Attachments |-> vols[v].att]

HasPoolTags(v) ==
    /\ idTagKey \in DOMAIN vols[v].tags /\ vols[v].tags[idTagKey] = idTagValue
    /\ kindTagKey \in DOMAIN vols[v].tags /\ vols[v].tags[kindTagKey] = kindTagValue
    /\ asgNameTagKey \in DOMAIN vols[v].tags /\ vols[v].tags[asgNameTagKey] = asgNameTagValue

\* describeVolTags of the first query: attached to this instance, in use
LocalAttachedFilter(v, localInstanceID) ==
    /\ vols[v].state = "in-use"
    /\ vols[v].att # NoAttachment
    /\ vols[v].att[1].InstanceId = localInstanceID
    /\ vols[v].att[1].State = "attached"
    /\ vols[v].zone = az
    /\ HasPoolTags(v)

AvailableFilter_AnyZone(v) ==
    /\ vols[v].state = "available"
    /\ HasPoolTags(v)

AvailableFilter_AnyState(v) ==
    /\ vols[v].state \in {"available", "in-use"}
    /\ vols[v].zone = az
    /\ HasPoolTags(v)

\* describeVolTags of the second query: available volumes of the zone and pool
AvailableFilter(v) ==
    /\ vols[v].state = "available"
    /\ vols[v].zone = az
    /\ HasPoolTags(v)

\* every order in which the backend may list the volumes of S
ListingsOf(S) ==
    {s \in [1..Cardinality(S) -> S] : \A i, j \in 1..Cardinality(S) : i # j => s[i] # s[j]}

DescribeVolumes(S) == {[i \in 1..Len(s) |-> Snapshot(s[i])] : s \in ListingsOf(S)}

\* the backend accepts an attach request for an available volume of the
\* instance's zone when the instance's device is free
BackendAttachOK(v, instanceID) ==
    /\ vols[v].state = "available"
    /\ vols[v].zone = az
    /\ \A w \in VolIds : vols[w].att # NoAttachment => vols[w].att[1].InstanceId # instanceID

\* one describe of PollVolume: the event sent and whether the channel is closed
PollVolumeEvent(volumeID, volumeState, volumeAttachmentState) ==
    LET vol == Snapshot(volumeID) IN
    IF vol.State = "absent"
    THEN [ev |-> [Error |-> TRUE, Volume |-> NoVolume], closed |-> FALSE]
    ELSE IF vol.State # volumeState
    THEN [ev |-> [Error |-> FALSE, Volume |-> vol], closed |-> FALSE]
    ELSE IF volumeAttachmentState = ""
    THEN [ev |-> [Error |-> FALSE, Volume |-> vol], closed |-> TRUE]
    ELSE IF Len(vol.Attachments) # 1
    THEN [ev |-> [Error |-> TRUE, Volume |-> vol], closed |-> FALSE]
    ELSE IF vol.Attachments[1].State = volumeAttachmentState
    THEN [ev |-> [Error |-> FALSE, Volume |-> vol], closed |-> TRUE]
    ELSE [ev |-> [Error |-> FALSE, Volume |-> vol], closed |-> FALSE]

\* ------------------------------------------------------------ JSON texts
\* A JSON text is a sequence of characters; an identifier prefix such as
\* "eni-" is one atomic token, digits are single characters.
Quote == "\""

Backslash == "\\"

\* the characters of s with every quote and backslash escaped
RECURSIVE EscapeChars(_)
EscapeChars(s) ==
    IF Len(s) = 0 THEN <<>>
    ELSE (IF Head(s) \in {Quote, Backslash} THEN <<Backslash, Head(s)>> ELSE <<Head(s)>>)
         \o EscapeChars(Tail(s))

JsonString_NoEscape(s) == <<Quote>> \o s \o <<Quote>>

\* a string literal
JsonString(s) == <<Quote>> \o EscapeChars(s) \o <<Quote>>

\* the literal of a nil slice
JsonNull == <<"null">>

RECURSIVE JoinComma(_)
JoinComma(texts) ==
    IF Len(texts) = 0 THEN <<>>
    ELSE IF Len(texts) = 1 THEN texts[1]
    ELSE texts[1] \o <<",">> \o JoinComma(Tail(texts))

\* json.Marshal of a []string
MarshalStrings(ids) ==
    <<"[">> \o JoinComma([i \in 1..Len(ids) |-> JsonString(ids[i])]) \o <<"]">>

\* json.Marshal of one ec2.EIP (field order of the struct, no omitempty)
MarshalEIP(eip) ==
    <<"{">> \o JsonString(<<"allocation_id">>) \o <<":">> \o JsonString(eip.AllocationID)
    \o <<",">> \o JsonString(<<"public_ip">>) \o <<":">> \o JsonString(eip.PublicIP)
    \o <<"}">>

\* json.Marshal of ec2.EIPs
MarshalEIPs(e) ==
    <<"[">> \o JoinComma([i \in 1..Len(e) |-> MarshalEIP(e[i])]) \o <<"]">>

\* the characters of a string literal from pos up to its closing quote,
\* with the escapes undone
RECURSIVE ReadChars(_, _, _)
ReadChars(text, pos, acc) ==
    IF pos > Len(text) THEN [ok |-> FALSE, val |-> <<>>, next |-> pos]
    ELSE IF text[pos] = Quote THEN [ok |-> TRUE, val |-> acc, next |-> pos + 1]
    ELSE IF text[pos] = Backslash
         THEN IF pos + 1 <= Len(text) /\ text[pos + 1] \in {Quote, Backslash}
              THEN ReadChars(text, pos + 2, Append(acc, text[pos + 1]))
              ELSE [ok |-> FALSE, val |-> <<>>, next |-> pos]
    ELSE ReadChars(text, pos + 1, Append(acc, text[pos]))

\* reads the string literal that starts at pos; next is the position after it
ReadString(text, pos) ==
    IF pos > Len(text) \/ text[pos] # Quote
    THEN [ok |-> FALSE, val |-> <<>>, next |-> pos]
    ELSE ReadChars(text, pos + 1, <<>>)

At(text, pos) == IF pos \in 1..Len(text) THEN text[pos] ELSE "<eof>"

RECURSIVE ReadStrings(_, _, _)
ReadStrings(text, pos, acc) ==
    LET s == ReadString(text, pos) IN
    IF ~s.ok THEN [ok |-> FALSE, val |-> <<>>, next |-> pos]
    ELSE IF At(text, s.next) = ","
         THEN ReadStrings(text, s.next + 1, Append(acc, s.val))
    ELSE IF At(text, s.next) = "]"
         THEN [ok |-> TRUE, val |-> Append(acc, s.val), next |-> s.next + 1]
    ELSE [ok |-> FALSE, val |-> <<>>, next |-> pos]

\* json.Unmarshal into a []string
UnmarshalStrings(text) ==
    IF text = JsonNull THEN [ok |-> TRUE, val |-> <<>>, null |-> TRUE]
    ELSE IF At(text, 1) # "[" THEN [ok |-> FALSE, val |-> <<>>, null |-> FALSE]
    ELSE IF At(text, 2) = "]" THEN [ok |-> Len(text) = 2, val |-> <<>>, null |-> FALSE]
    ELSE LET r == ReadStrings(text, 2, <<>>) IN
         [ok |-> r.ok /\ r.next = Len(text) + 1, val |-> IF r.ok THEN r.val ELSE <<>>,
          null |-> FALSE]

EmptyEIP == [AllocationID |-> <<>>, PublicIP |-> <<>>]

\* the members of one JSON object whose values are strings; a known key sets
\* its field, any other key is ignored
RECURSIVE ReadMembers(_, _, _)
ReadMembers(text, pos, acc) ==
    LET k == ReadString(text, pos) IN
    IF ~k.ok \/ At(text, k.next) # ":" THEN [ok |-> FALSE, val |-> EmptyEIP, next |-> pos]
    ELSE LET v == ReadString(text, k.next + 1)
             got == IF k.val = <<"allocation_id">> THEN [acc EXCEPT !.AllocationID = v.val]
                    ELSE IF k.val = <<"public_ip">> THEN [acc EXCEPT !.PublicIP = v.val]
                    ELSE acc
         IN IF ~v.ok THEN [ok |-> FALSE, val |-> EmptyEIP, next |-> pos]
            ELSE IF At(text, v.next) = "," THEN ReadMembers(text, v.next + 1, got)
            ELSE IF At(text, v.next) = "}" THEN [ok |-> TRUE, val |-> got, next |-> v.next + 1]
            ELSE [ok |-> FALSE, val |-> EmptyEIP, next |-> pos]

RECURSIVE ReadEIPs(_, _, _)
ReadEIPs(text, pos, acc) ==
    IF At(text, pos) # "{" THEN [ok |-> FALSE, val |-> <<>>, next |-> pos]
    ELSE LET o == IF At(text, pos + 1) = "}"
                  THEN [ok |-> TRUE, val |-> EmptyEIP, next |-> pos + 2]
                  ELSE ReadMembers(text, pos + 1, EmptyEIP)
         IN IF ~o.ok THEN [ok |-> FALSE, val |-> <<>>, next |-> pos]
            ELSE IF At(text, o.next) = "," THEN ReadEIPs(text, o.next + 1, Append(acc, o.val))
            ELSE IF At(text, o.next) = "]"
                 THEN [ok |-> TRUE, val |-> Append(acc, o.val), next |-> o.next + 1]
            ELSE [ok |-> FALSE, val |-> <<>>, next |-> pos]

\* json.Unmarshal into ec2.EIPs
UnmarshalEIPs(text) ==
    IF text = JsonNull THEN [ok |-> TRUE, val |-> <<>>, null |-> TRUE]
    ELSE IF At(text, 1) # "[" THEN [ok |-> FALSE, val |-> <<>>, null |-> FALSE]
    ELSE IF At(text, 2) = "]" THEN [ok |-> Len(text) = 2, val |-> <<>>, null |-> FALSE]
    ELSE LET r == ReadEIPs(text, 2, <<>>) IN
         [ok |-> r.ok /\ r.next = Len(text) + 1, val |-> IF r.ok THEN r.val ELSE <<>>,
          null |-> FALSE]

\* ------------------------------------------------------------ local files
\* the error of os.Stat on a state file: none, or the not-exist error
Stat(file) == IF file.exists THEN "nil" ELSE "ENOENT"

FileExists_MissingIsError(err) ==
    IF err # "nil" THEN [exists |-> FALSE, err |-> TRUE]
    ELSE [exists |-> TRUE, err |-> FALSE]

\* fileutil.FileExists, from the error of os.Stat
FileExists(err) ==
    IF err = "ENOENT" THEN [exists |-> FALSE, err |-> FALSE]
    ELSE IF err # "nil" THEN [exists |-> FALSE, err |-> TRUE]
    ELSE [exists |-> TRUE, err |-> FALSE]

\* ------------------------------------------- network backend and processes
EniId(i) == <<"eni-">> \o FormatInt(i)
AllocationId(i) == <<"eipalloc-">> \o FormatInt(i)
PublicIp(i) == <<"ip-">> \o FormatInt(i)

EniPoolTags == (idTagKey :> idTagValue) @@ (kindTagKey :> eniKindTagValue)
               @@ (asgNameTagKey :> asgNameTagValue)
EipPoolTags == (idTagKey :> idTagValue) @@ (kindTagKey :> eipKindTagValue)
               @@ (asgNameTagKey :> asgNameTagValue)

\* ec2.ConvertTags: the Name tag is added when a name is given
ConvertTags(name, m) == IF name # "" THEN ("Name" :> name) @@ m ELSE m

\* tags of the AllocateAddress request
toTags(name, m) == IF name # "" THEN ("Name" :> name) @@ m ELSE m

AbsentENI == [state |-> "absent", att |-> "", tags |-> <<>>, createdBy |-> ""]
AbsentEIP == [state |-> "absent", assoc |-> "", tags |-> <<>>, createdBy |-> ""]

\* a detached resource of the pool left behind by a node that is gone
LeftoverENI ==
    [state |-> "available", att |-> "", tags |-> ConvertTags(asgNameTagValue, EniPoolTags),
     createdBy |-> FormerInstance]
LeftoverEIP ==
    [state |-> "allocated", assoc |-> "", tags |-> toTags(asgNameTagValue, EipPoolTags),
     createdBy |-> FormerInstance]

InitENIProc ==
    [pc |-> "start", curAttached1 |-> <<>>, enisToAttach |-> <<>>,
     enisFileContents |-> <<>>, next |-> 1, exists |-> FALSE, calls |-> {}]

InitEIPProc ==
    [pc |-> "start", curAssociated |-> <<>>, eipsToAssociate |-> <<>>,
     needsAssociate |-> {}, exists |-> FALSE, calls |-> {}]

\* the network provisioners have not been started and nothing of theirs exists
NetIdle ==
    /\ enis = [e \in EniIds |-> AbsentENI]
    /\ eips = [a \in EipIds |-> AbsentEIP]
    /\ eniProc = [n \in NetInstances |-> InitENIProc]
    /\ eipProc = [n \in NetInstances |-> InitEIPProc]
    /\ curENIsFile = [n \in NetInstances |-> NoNetFile]
    /\ curEIPsFile = [n \in NetInstances |-> NoNetFile]
    /\ netInstanceTags = [n \in NetInstances |-> [enis |-> <<>>, eips |-> <<>>]]
    /\ netRestarts = 0

\* ------------------------------------------------- volume provisioner state
InitProc ==
    [pc |-> "start",
     localAttachedVols |-> <<>>,
     describedVols |-> <<>>,
     reusableVolFoundInAZ |-> FALSE,
     needMkfs |-> TRUE,
     attachVolumeID |-> 0,
     createdVolID |-> 0,
     unixTS |-> 0,
     volLeaseHoldValue |-> <<>>,
     found |-> <<>>,
     volStatus |-> [Error |-> FALSE, Volume |-> NoVolume],
     calls |-> {}]

\* the process has exited; its memory is gone. status is "done" (exit 0),
\* "leaseExit" (exit 1 from the lease check) or "failed" (any other exit 1,
\* and the exit of a panic)
Exited(status) == [InitProc EXCEPT !.pc = status]

Init ==
    /\ now = 0
    /\ \/ vols = [v \in VolIds |-> AbsentVolume]
       \/ \E lease \in InitialLeases :
            vols = [v \in VolIds |-> IF v = 1 THEN PreexistingVolume(lease) ELSE AbsentVolume]
    /\ proc = [n \in Instances |-> InitProc]
    /\ instanceTags = [n \in Instances |-> 0]
    /\ curEBSVolIDFile = [n \in Instances |-> NoFile]
    /\ restarts = 0
    /\ NetIdle
    /\ codec = IdleCodec
    /\ poller = IdlePoller
    /\ query = IdleQuery

\* the lease check of the claim step: exit is os.Exit(1), reusable is the
\* final value of reusableVolFoundInAZ
LeaseCheckBody(describedVols, localInstanceID, unixNow, onEmpty, onUntagged, onOwn, onStale) ==
    LET reusableVolFoundInAZ == Len(describedVols) > 0 IN
    IF ~reusableVolFoundInAZ
    THEN onEmpty
    ELSE IF volLeaseHoldKey \notin DOMAIN describedVols[1].Tags
    THEN onUntagged
    ELSE LET ss == Split(describedVols[1].Tags[volLeaseHoldKey], "_") IN
         IF Len(ss) # 2
         THEN [exit |-> TRUE, reusable |-> reusableVolFoundInAZ]
         ELSE LET leaseHolder == ss[1]
                  leasedAt == ParseInt(ss[2])
              IN IF ~leasedAt.ok
                 THEN [exit |-> TRUE, reusable |-> reusableVolFoundInAZ]
                 ELSE IF leaseHolder = <<localInstanceID>>
                 THEN onOwn
                 ELSE IF unixNow - leasedAt.val > LeaseTimeoutSeconds
                 THEN onStale
                 ELSE [exit |-> FALSE, reusable |-> reusableVolFoundInAZ]

Reuse == [exit |-> FALSE, reusable |-> TRUE]
CreateNew == [exit |-> FALSE, reusable |-> FALSE]
ExitNonZero == [exit |-> TRUE, reusable |-> FALSE]

LeaseCheck_StaleNotReusable(describedVols, localInstanceID, unixNow) ==
    LeaseCheckBody(describedVols, localInstanceID, unixNow, CreateNew, Reuse, Reuse, CreateNew)

LeaseCheck_OwnNotReusable(describedVols, localInstanceID, unixNow) ==
    LeaseCheckBody(describedVols, localInstanceID, unixNow, CreateNew, Reuse, CreateNew, Reuse)

LeaseCheck_UntaggedNotReusable(describedVols, localInstanceID, unixNow) ==
    LeaseCheckBody(describedVols, localInstanceID, unixNow, CreateNew, CreateNew, Reuse, Reuse)

LeaseCheck_EmptyIsError(describedVols, localInstanceID, unixNow) ==
    LeaseCheckBody(describedVols, localInstanceID, unixNow, ExitNonZero, Reuse, Reuse, Reuse)

LeaseCheck_OwnBeforeParse(describedVols, localInstanceID, unixNow) ==
    LET reusableVolFoundInAZ == Len(describedVols) > 0 IN
    IF ~reusableVolFoundInAZ
    THEN [exit |-> FALSE, reusable |-> FALSE]
    ELSE IF volLeaseHoldKey \notin DOMAIN describedVols[1].Tags
    THEN [exit |-> FALSE, reusable |-> reusableVolFoundInAZ]
    ELSE LET ss == Split(describedVols[1].Tags[volLeaseHoldKey], "_") IN
         IF ss[1] = <<localInstanceID>>
         THEN [exit |-> FALSE, reusable |-> TRUE]
         ELSE IF Len(ss) # 2
         THEN [exit |-> TRUE, reusable |-> reusableVolFoundInAZ]
         ELSE LET leasedAt == ParseInt(ss[2]) IN
              IF ~leasedAt.ok
              THEN [exit |-> TRUE, reusable |-> reusableVolFoundInAZ]
              ELSE IF unixNow - leasedAt.val > LeaseTimeoutSeconds
              THEN [exit |-> FALSE, reusable |-> TRUE]
              ELSE [exit |-> FALSE, reusable |-> reusableVolFoundInAZ]

LeaseCheck(describedVols, localInstanceID, unixNow) ==
    LET reusableVolFoundInAZ == Len(describedVols) > 0 IN
    IF ~reusableVolFoundInAZ
    THEN [exit |-> FALSE, reusable |-> FALSE]
    ELSE IF volLeaseHoldKey \notin DOMAIN describedVols[1].Tags
    THEN [exit |-> FALSE, reusable |-> reusableVolFoundInAZ]
    ELSE LET ss == Split(describedVols[1].Tags[volLeaseHoldKey], "_") IN
         IF Len(ss) # 2
         THEN [exit |-> TRUE, reusable |-> reusableVolFoundInAZ]
         ELSE LET leaseHolder == ss[1]
                  leasedAt == ParseInt(ss[2])
              IN IF ~leasedAt.ok
                 THEN [exit |-> TRUE, reusable |-> reusableVolFoundInAZ]
                 ELSE IF leaseHolder = <<localInstanceID>>
                 THEN [exit |-> FALSE, reusable |-> TRUE]
                 ELSE IF unixNow - leasedAt.val > LeaseTimeoutSeconds
                 THEN [exit |-> FALSE, reusable |-> TRUE]
                 ELSE [exit |-> FALSE, reusable |-> reusableVolFoundInAZ]


\* ----------------------------------------------- volume provisioner actions
Call(op, v, val) == [op |-> op, vol |-> v, val |-> val]

DescribeLocal_IgnoreAttached(n) ==
    /\ proc[n].pc = "start"
    /\ \E attached \in DescribeVolumes({v \in VolIds : LocalAttachedFilter(v, n)}) :
         proc' = [proc EXCEPT ![n].localAttachedVols = attached,
                              ![n].pc = "describeAvail"]
    /\ UNCHANGED <<now, vols, instanceTags, curEBSVolIDFile, restarts>>
    /\ UNCHANGED <<netVars, auxVars>>

\* first query: is a volume already attached to this instance?
DescribeLocal(n) ==
    /\ proc[n].pc = "start"
    /\ \E attached \in DescribeVolumes({v \in VolIds : LocalAttachedFilter(v, n)}) :
         proc' = [proc EXCEPT ![n] =
                    IF Len(attached) = 1
                    THEN [@ EXCEPT !.localAttachedVols = attached,
                                   !.needMkfs = FALSE,
                                   !.attachVolumeID = attached[1].VolumeId,
                                   !.pc = "pollAttach"]
                    ELSE [@ EXCEPT !.localAttachedVols = attached,
                                   !.pc = "describeAvail"]]
    /\ UNCHANGED <<now, vols, instanceTags, curEBSVolIDFile, restarts>>
    /\ UNCHANGED <<netVars, auxVars>>

\* second query: available volumes of the zone and pool (the context is
\* cancelled after the first answer, so the query is made once), then the
\* lease check and the computation of the lease value to write
FindReusable(n) ==
    /\ proc[n].pc = "describeAvail"
    /\ \E described \in DescribeVolumes({v \in VolIds : AvailableFilter(v)}) :
         LET r == LeaseCheck(described, n, now) IN
         proc' = [proc EXCEPT ![n] =
                    IF r.exit
                    THEN Exited("leaseExit")
                    ELSE [@ EXCEPT !.describedVols = described,
                                   !.found = described,
                                   !.reusableVolFoundInAZ = r.reusable,
                                   !.unixTS = now,
                                   !.volLeaseHoldValue = LeaseHoldValue(n, now),
                                   !.pc = IF r.reusable THEN "renewLease" ELSE "createVolume"]]
    /\ UNCHANGED <<now, vols, instanceTags, curEBSVolIDFile, restarts>>
    /\ UNCHANGED <<netVars, auxVars>>

RenewLease_KeepMkfs(n) ==
    /\ proc[n].pc = "renewLease"
    /\ LET reusedVolID == proc[n].describedVols[1].VolumeId IN
       /\ vols[reusedVolID].state # "absent"
       /\ vols' = [vols EXCEPT ![reusedVolID].tags =
                     (volLeaseHoldKey :> proc[n].volLeaseHoldValue) @@ @]
       /\ proc' = [proc EXCEPT ![n].calls = @ \cup {Call("CreateTags", reusedVolID, proc[n].volLeaseHoldValue)},
                               ![n].pc = "attach"]
    /\ UNCHANGED <<now, instanceTags, curEBSVolIDFile, restarts>>
    /\ UNCHANGED <<netVars, auxVars>>

\* reuse branch: CreateTags writes the lease on the found volume
RenewLease(n) ==
    /\ proc[n].pc = "renewLease"
    /\ LET reusedVolID == proc[n].describedVols[1].VolumeId IN
       /\ vols[reusedVolID].state # "absent"
       /\ vols' = [vols EXCEPT ![reusedVolID].tags =
                     (volLeaseHoldKey :> proc[n].volLeaseHoldValue) @@ @]
       /\ proc' = [proc EXCEPT ![n].needMkfs = FALSE,
                               ![n].calls = @ \cup {Call("CreateTags", reusedVolID, proc[n].volLeaseHoldValue)},
                               ![n].pc = "attach"]
    /\ UNCHANGED <<now, instanceTags, curEBSVolIDFile, restarts>>
    /\ UNCHANGED <<netVars, auxVars>>

CreateVolumeTags_NameOnly(name, tags) == ("Name" :> name)

\* tags given to ec2.CreateVolume, which adds the Name tag and passes them
\* all in the TagSpecifications of the create request
CreateVolumeTags(name, tags) == tags @@ ("Name" :> name)

\* create branch: a new volume of the zone, tagged at creation
CreateVolume(n) ==
    /\ proc[n].pc = "createVolume"
    /\ \E v \in VolIds :
         /\ vols[v].state = "absent"
         /\ \A w \in VolIds : w < v => vols[w].state # "absent"
         /\ vols' = [vols EXCEPT ![v] =
                       [state |-> "creating", zone |-> az,
                        tags |-> CreateVolumeTags(asgNameTagValue,
                                    (volLeaseHoldKey :> proc[n].volLeaseHoldValue) @@ PoolTags),
                        att |-> NoAttachment, fs |-> FALSE, createdBy |-> n]]
         /\ proc' = [proc EXCEPT ![n].createdVolID = v,
                                 ![n].calls = @ \cup {Call("CreateVolume", v, proc[n].volLeaseHoldValue)},
                                 ![n].pc = "pollAvailable"]
    /\ UNCHANGED <<now, instanceTags, curEBSVolIDFile, restarts>>
    /\ UNCHANGED <<netVars, auxVars>>

\* a tick of PollVolume whose describe call failed: the event carries the
\* error and the zero Volume
DescribeFailedEvent == [ev |-> [Error |-> TRUE, Volume |-> NoVolume], closed |-> FALSE]

\* one tick of PollVolume and the consumer loop's handling of its event
PollTick(n) ==
    /\ proc[n].pc \in {"pollAvailable", "pollAttach"}
    /\ \E r \in {IF proc[n].pc = "pollAvailable"
                  THEN PollVolumeEvent(proc[n].createdVolID, "available", "")
                  ELSE PollVolumeEvent(proc[n].attachVolumeID, "in-use", "attached"),
                  DescribeFailedEvent} :
          proc' = [proc EXCEPT ![n] =
                     IF r.ev.Volume.VolumeId = 0
                     THEN \* the loop body dereferences a nil VolumeId
                          Exited("failed")
                     ELSE IF ~r.closed
                     THEN [@ EXCEPT !.volStatus = r.ev]
                     ELSE IF r.ev.Error
                     THEN Exited("failed")
                     ELSE IF proc[n].pc = "pollAvailable"
                     THEN [@ EXCEPT !.volStatus = r.ev,
                                    !.describedVols = <<r.ev.Volume>>,
                                    !.pc = "attach"]
                     ELSE [@ EXCEPT !.volStatus = r.ev, !.pc = "publish"]]
    /\ UNCHANGED <<now, vols, instanceTags, curEBSVolIDFile, restarts>>
    /\ UNCHANGED <<netVars, auxVars>>

\* the poll context expires (or a signal arrives): the run exits non-zero
PollDeadline(n) ==
    /\ proc[n].pc \in {"pollAvailable", "pollAttach"}
    /\ proc' = [proc EXCEPT ![n] = Exited("failed")]
    /\ UNCHANGED <<now, vols, instanceTags, curEBSVolIDFile, restarts>>
    /\ UNCHANGED <<netVars, auxVars>>

Attach_IgnoreError(n) ==
    /\ proc[n].pc = "attach"
    /\ LET attachVolumeID == proc[n].describedVols[1].VolumeId IN
       /\ vols' = IF BackendAttachOK(attachVolumeID, n)
                  THEN [vols EXCEPT ![attachVolumeID].state = "in-use",
                                    ![attachVolumeID].att = <<[InstanceId |-> n, State |-> "attaching"]>>]
                  ELSE vols
       /\ proc' = [proc EXCEPT ![n].attachVolumeID = attachVolumeID,
                               ![n].calls = @ \cup {Call("AttachVolume", attachVolumeID, <<>>)},
                               ![n].pc = "pollAttach"]
    /\ UNCHANGED <<now, instanceTags, curEBSVolIDFile, restarts>>
    /\ UNCHANGED <<netVars, auxVars>>

Attach_FallBackToCreate(n) ==
    /\ proc[n].pc = "attach"
    /\ LET attachVolumeID == proc[n].describedVols[1].VolumeId IN
       IF BackendAttachOK(attachVolumeID, n)
       THEN /\ vols' = [vols EXCEPT ![attachVolumeID].state = "in-use",
                                    ![attachVolumeID].att = <<[InstanceId |-> n, State |-> "attaching"]>>]
            /\ proc' = [proc EXCEPT ![n].attachVolumeID = attachVolumeID,
                                    ![n].calls = @ \cup {Call("AttachVolume", attachVolumeID, <<>>)},
                                    ![n].pc = "pollAttach"]
       ELSE /\ vols' = vols
            /\ proc' = [proc EXCEPT ![n].pc = "createVolume"]
    /\ UNCHANGED <<now, instanceTags, curEBSVolIDFile, restarts>>
    /\ UNCHANGED <<netVars, auxVars>>

\* attach request for describedVols[0]
Attach(n) ==
    /\ proc[n].pc = "attach"
    /\ LET attachVolumeID == proc[n].describedVols[1].VolumeId IN
       IF BackendAttachOK(attachVolumeID, n)
       THEN /\ vols' = [vols EXCEPT ![attachVolumeID].state = "in-use",
                                    ![attachVolumeID].att = <<[InstanceId |-> n, State |-> "attaching"]>>]
            /\ proc' = [proc EXCEPT ![n].attachVolumeID = attachVolumeID,
                                    ![n].calls = @ \cup {Call("AttachVolume", attachVolumeID, <<>>)},
                                    ![n].pc = "pollAttach"]
       ELSE /\ vols' = vols
            /\ proc' = [proc EXCEPT ![n] = Exited("failed")]
    /\ UNCHANGED <<now, instanceTags, curEBSVolIDFile, restarts>>
    /\ UNCHANGED <<netVars, auxVars>>

\* publish the attached volume id as a tag of the local instance
Publish(n) ==
    /\ proc[n].pc = "publish"
    /\ instanceTags' = [instanceTags EXCEPT ![n] = proc[n].volStatus.Volume.VolumeId]
    /\ proc' = [proc EXCEPT ![n].pc = "mkfs"]
    /\ UNCHANGED <<now, vols, curEBSVolIDFile, restarts>>
    /\ UNCHANGED <<netVars, auxVars>>

\* make the filesystem on the attached device, only when needMkfs
Mkfs(n) ==
    /\ proc[n].pc = "mkfs"
    /\ IF proc[n].needMkfs
       THEN /\ vols' = [vols EXCEPT ![proc[n].attachVolumeID].fs = TRUE]
            /\ proc' = [proc EXCEPT ![n].calls = @ \cup {Call("Mkfs", proc[n].attachVolumeID, <<>>)},
                                    ![n].pc = "mount"]
       ELSE /\ vols' = vols
            /\ proc' = [proc EXCEPT ![n].pc = "mount"]
    /\ UNCHANGED <<now, instanceTags, curEBSVolIDFile, restarts>>
    /\ UNCHANGED <<netVars, auxVars>>

\* mkdir, mount, fstab, then write the volume id to the local state file
\* and exit with status 0
MountAndWriteFile(n) ==
    /\ proc[n].pc = "mount"
    /\ curEBSVolIDFile' = [curEBSVolIDFile EXCEPT ![n] = proc[n].attachVolumeID]
    /\ proc' = [proc EXCEPT ![n] = Exited("done")]
    /\ UNCHANGED <<now, vols, instanceTags, restarts>>
    /\ UNCHANGED <<netVars, auxVars>>

\* any backend or local call returns an error: os.Exit(1)
CallFails(n) ==
    /\ proc[n].pc \in {"start", "describeAvail", "renewLease", "createVolume", "attach",
                       "publish", "mkfs", "mount"}
    /\ proc' = [proc EXCEPT ![n] = Exited("failed")]
    /\ UNCHANGED <<now, vols, instanceTags, curEBSVolIDFile, restarts>>
    /\ UNCHANGED <<netVars, auxVars>>

\* the provisioner process is started again on the same instance after it
\* exited (a crash at any point is an exit at that point)
Restart(n) ==
    /\ proc[n].pc \in {"done", "failed", "leaseExit"}
    /\ restarts < MaxRestarts
    /\ restarts' = restarts + 1
    /\ proc' = [proc EXCEPT ![n] = InitProc]
    /\ UNCHANGED <<now, vols, instanceTags, curEBSVolIDFile>>
    /\ UNCHANGED <<netVars, auxVars>>

\* ---------------------------------------------------------- backend steps
VolumeBecomesAvailable(v) ==
    /\ vols[v].state = "creating"
    /\ vols' = [vols EXCEPT ![v].state = "available"]
    /\ UNCHANGED <<now, proc, instanceTags, curEBSVolIDFile, restarts>>
    /\ UNCHANGED <<netVars, auxVars>>

AttachmentCompletes(v) ==
    /\ vols[v].state = "in-use"
    /\ vols[v].att # NoAttachment
    /\ vols[v].att[1].State = "attaching"
    /\ vols' = [vols EXCEPT ![v].att = <<[@[1] EXCEPT !.State = "attached"]>>]
    /\ UNCHANGED <<now, proc, instanceTags, curEBSVolIDFile, restarts>>
    /\ UNCHANGED <<netVars, auxVars>>

Tick(d) ==
    /\ now + d <= MaxTime
    /\ now' = now + d
    /\ UNCHANGED <<vols, proc, instanceTags, curEBSVolIDFile, restarts>>
    /\ UNCHANGED <<netVars, auxVars>>

Next ==
    \/ \E n \in Instances : DescribeLocal(n)
    \/ \E n \in Instances : FindReusable(n)
    \/ \E n \in Instances : RenewLease(n)
    \/ \E n \in Instances : CreateVolume(n)
    \/ \E n \in Instances : PollTick(n)
    \/ \E n \in Instances : PollDeadline(n)
    \/ \E n \in Instances : Attach(n)
    \/ \E n \in Instances : Publish(n)
    \/ \E n \in Instances : Mkfs(n)
    \/ \E n \in Instances : MountAndWriteFile(n)
    \/ \E n \in Instances : CallFails(n)
    \/ \E n \in Instances : Restart(n)
    \/ \E v \in VolIds : VolumeBecomesAvailable(v)
    \/ \E v \in VolIds : AttachmentCompletes(v)
    \/ \E d \in TickSteps : Tick(d)

Spec == Init /\ [][Next]_vars

\* ----------------------------------------------- restart with a state file
\* the volume that an earlier, completed run on RebootedInstance created,
\* leased at unix time 0, attached and recorded; it has been detached since
RecordedVolume ==
    [state |-> "available", zone |-> az,
     tags |-> CreateVolumeTags(asgNameTagValue,
                 (volLeaseHoldKey :> LeaseHoldValue(RebootedInstance, 0)) @@ PoolTags),
     att |-> NoAttachment, fs |-> TRUE, createdBy |-> RebootedInstance]

\* the provisioner starts on a node whose state file records volume 1 while
\* that volume is attached to nothing
InitReboot ==
    /\ now = 0
    /\ vols = [v \in VolIds |-> IF v = 1 THEN RecordedVolume ELSE AbsentVolume]
    /\ proc = [n \in Instances |-> InitProc]
    /\ instanceTags = [n \in Instances |-> IF n = RebootedInstance THEN 1 ELSE 0]
    /\ curEBSVolIDFile = [n \in Instances |-> IF n = RebootedInstance THEN 1 ELSE NoFile]
    /\ restarts = 0
    /\ NetIdle
    /\ codec = IdleCodec
    /\ poller = IdlePoller
    /\ query = IdleQuery

SpecReboot == InitReboot /\ [][Next]_vars


\* ======================================================================
\* Properties of the volume provisioner
\* ======================================================================

\* the lease the node found on the first volume returned by the reuse query
FoundLease(n) ==
    LET d == proc[n].found
        none == [found |-> FALSE, tagged |-> FALSE, valid |-> FALSE, holder |-> <<>>, leasedAt |-> 0]
    IN IF Len(d) = 0 THEN none
       ELSE IF volLeaseHoldKey \notin DOMAIN d[1].Tags
       THEN [none EXCEPT !.found = TRUE]
       ELSE LET ss == Split(d[1].Tags[volLeaseHoldKey], "_")
                ts == ParseInt(ss[IF Len(ss) >= 2 THEN 2 ELSE 1])
            IN IF Len(ss) # 2 \/ ~ts.ok
               THEN [none EXCEPT !.found = TRUE, !.tagged = TRUE]
               ELSE [found |-> TRUE, tagged |-> TRUE, valid |-> TRUE,
                     holder |-> ss[1], leasedAt |-> ts.val]

FoundVolumeId(n) == proc[n].found[1].VolumeId

\* the claim step of the run has been taken and the process is running
Decided(n) == proc[n].pc \notin {"start", "describeAvail", "done", "failed", "leaseExit"}

PastRenew(n) ==
    proc[n].pc \in {"attach", "pollAttach", "publish", "mkfs", "mount"}

PastAttach(n) ==
    proc[n].pc \in {"pollAttach", "publish", "mkfs", "mount"}

CallsOf(n, op) == {c \in proc[n].calls : c.op = op}

ExpectedLease(n) == <<n, "_">> \o FormatInt(proc[n].unixTS)

FreshForeignLeaseFound(n) ==
    /\ Decided(n)
    /\ LET lease == FoundLease(n) IN
       /\ lease.valid
       /\ lease.holder # <<n>>
       /\ proc[n].unixTS - lease.leasedAt <= 600

StaleForeignLeaseFound(n) ==
    /\ Decided(n)
    /\ LET lease == FoundLease(n) IN
       /\ lease.valid
       /\ lease.holder # <<n>>
       /\ proc[n].unixTS - lease.leasedAt > 600

OwnLeaseFound(n) ==
    /\ Decided(n)
    /\ LET lease == FoundLease(n) IN
       /\ lease.valid
       /\ lease.holder = <<n>>

UntaggedFound(n) ==
    /\ Decided(n)
    /\ Len(proc[n].found) > 0
    /\ volLeaseHoldKey \notin DOMAIN proc[n].found[1].Tags

\* the run reuses the found volume: no volume is created, the only tag
\* written is the node's own lease on the found volume, the only attach
\* request is for the found volume
ReusesFound(n) ==
    LET expected == ExpectedLease(n) IN
    /\ proc[n].reusableVolFoundInAZ
    /\ proc[n].pc \notin {"createVolume", "pollAvailable"}
    /\ CallsOf(n, "CreateVolume") = {}
    /\ CallsOf(n, "CreateTags") \subseteq {Call("CreateTags", FoundVolumeId(n), expected)}
    /\ CallsOf(n, "AttachVolume") \subseteq {Call("AttachVolume", FoundVolumeId(n), <<>>)}
    /\ PastRenew(n) => Call("CreateTags", FoundVolumeId(n), expected) \in proc[n].calls
    /\ PastAttach(n) => /\ Call("AttachVolume", FoundVolumeId(n), <<>>) \in proc[n].calls
                        /\ proc[n].attachVolumeID = FoundVolumeId(n)

\* the step in which node n writes the lease tag on the found volume
RenewStep(n) == proc[n].pc = "renewLease" /\ proc'[n].pc = "attach"

\* C1: a found volume whose lease is held by another instance and is not
\* older than 600 seconds is rejected: the node writes no tag on it, does not
\* attach it, and goes on to create a new volume.
C1_FreshForeignLeaseRejected ==
    \A n \in Instances :
        FreshForeignLeaseFound(n) =>
            /\ ~proc[n].reusableVolFoundInAZ
            /\ proc[n].pc \notin {"renewLease", "attach"}
            /\ \A c \in proc[n].calls :
                 c.op \in {"CreateTags", "AttachVolume"} => c.vol # FoundVolumeId(n)

\* C2: a found volume whose lease is held by another instance and is older
\* than 600 seconds is taken over: the node writes '<own id>_<unix seconds>'
\* as its lease, attaches that volume and creates none.
C2_StaleLeaseTakenOver ==
    /\ [](\A n \in Instances : StaleForeignLeaseFound(n) => ReusesFound(n))
    /\ [][\A n \in Instances :
            (RenewStep(n) /\ StaleForeignLeaseFound(n)) =>
                vols'[FoundVolumeId(n)].tags[volLeaseHoldKey] = ExpectedLease(n)]_vars

C2_Witness ==
    \E n \in Instances :
        /\ StaleForeignLeaseFound(n)
        /\ proc[n].pc = "mount"
        /\ vols[FoundVolumeId(n)].att # NoAttachment
        /\ vols[FoundVolumeId(n)].att[1].InstanceId = n
        /\ vols[FoundVolumeId(n)].tags[volLeaseHoldKey] = ExpectedLease(n)

\* C3: a node that finds its own instance id as the lease holder claims the
\* volume for every lease timestamp, and the holder part of the lease tag
\* is its own id before and after each claim.
C3_OwnLeaseAlwaysClaimed ==
    /\ [](\A n \in Instances : OwnLeaseFound(n) => ReusesFound(n))
    /\ [][\A n \in Instances :
            (RenewStep(n) /\ OwnLeaseFound(n)) =>
                Split(vols'[FoundVolumeId(n)].tags[volLeaseHoldKey], "_")[1]
                    = FoundLease(n).holder]_vars

C3_Witness ==
    \E n \in Instances :
        /\ OwnLeaseFound(n)
        /\ proc[n].unixTS - FoundLease(n).leasedAt > 600
        /\ restarts > 0
        /\ PastAttach(n)
        /\ Split(vols[FoundVolumeId(n)].tags[volLeaseHoldKey], "_")[1] = <<n>>

\* C4: a found volume without a lease tag is claimed at once: the node writes
\* its lease on it, attaches it and creates no volume.
C4_UntaggedClaimed ==
    /\ [](\A n \in Instances : UntaggedFound(n) => ReusesFound(n))
    /\ [][\A n \in Instances :
            (RenewStep(n) /\ UntaggedFound(n)) =>
                /\ volLeaseHoldKey \notin DOMAIN proc[n].found[1].Tags
                /\ vols'[FoundVolumeId(n)].tags[volLeaseHoldKey] = ExpectedLease(n)]_vars

C4_Witness ==
    \E n \in Instances :
        /\ UntaggedFound(n)
        /\ PastAttach(n)
        /\ vols[FoundVolumeId(n)].att # NoAttachment
        /\ vols[FoundVolumeId(n)].att[1].InstanceId = n

\* C5: every volume created by a provisioner has a lease tag from the moment
\* it exists, together with the Id, Kind and pool tags; at creation the lease
\* names the creating node and the time it read in the claim step.
C5_CreatedVolumeLeased ==
    /\ [](\A v \in VolIds :
            (vols[v].state # "absent" /\ vols[v].createdBy # "") =>
                /\ volLeaseHoldKey \in DOMAIN vols[v].tags
                /\ HasPoolTags(v))
    /\ [][\A v \in VolIds :
            (vols[v].state = "absent" /\ vols'[v].state # "absent") =>
                /\ volLeaseHoldKey \in DOMAIN vols'[v].tags
                /\ vols'[v].tags[volLeaseHoldKey]
                     = <<vols'[v].createdBy, "_">> \o FormatInt(proc[vols'[v].createdBy].unixTS)
                /\ proc[vols'[v].createdBy].unixTS <= now
                /\ vols'[v].tags[idTagKey] = idTagValue
                /\ vols'[v].tags[kindTagKey] = kindTagValue
                /\ vols'[v].tags[asgNameTagKey] = asgNameTagValue]_vars

C5_Witness ==
    \E v \in VolIds :
        /\ vols[v].createdBy # ""
        /\ vols[v].state = "creating"
        /\ Split(vols[v].tags[volLeaseHoldKey], "_")[1] = <<vols[v].createdBy>>

\* C6: with no attached volume and an empty answer to the reuse query, the
\* run does not exit because of that and creates exactly one volume.
C6_NothingFoundCreatesOne ==
    /\ [](\A n \in Instances :
            /\ Cardinality(CallsOf(n, "CreateVolume")) <= 1
            /\ (Decided(n) /\ Len(proc[n].localAttachedVols) # 1 /\ Len(proc[n].found) = 0
                  /\ proc[n].pc # "createVolume")
                 => Cardinality(CallsOf(n, "CreateVolume")) = 1)
    /\ [][\A n \in Instances :
            (/\ proc[n].pc = "describeAvail"
             /\ proc'[n].pc \notin {"describeAvail", "failed"}
             /\ {v \in VolIds : AvailableFilter(v)} = {}) =>
                /\ proc'[n].pc = "createVolume"
                /\ Len(proc[n].localAttachedVols) # 1
                /\ proc'[n].found = <<>>]_vars

C6_Witness ==
    \E n \in Instances :
        /\ Len(proc[n].found) = 0
        /\ Len(proc[n].localAttachedVols) = 0
        /\ proc[n].pc = "mount"
        /\ Cardinality(CallsOf(n, "CreateVolume")) = 1

\* C8: mkfs runs only for a volume created in the same run, and every run
\* that gets past the mkfs step has run it exactly when it created the volume.
C8_MkfsIffCreated ==
    \A n \in Instances :
        /\ \A c \in CallsOf(n, "Mkfs") :
             /\ Call("CreateVolume", c.vol, proc[n].volLeaseHoldValue) \in proc[n].calls
             /\ CallsOf(n, "CreateTags") = {}
             /\ Len(proc[n].localAttachedVols) # 1
        /\ proc[n].pc = "mount" =>
             (CallsOf(n, "Mkfs") # {} <=> CallsOf(n, "CreateVolume") # {})

C8_Witness ==
    /\ \E n \in Instances : proc[n].pc = "mount" /\ CallsOf(n, "Mkfs") # {}
    /\ \E n \in Instances :
         proc[n].pc = "mount" /\ CallsOf(n, "CreateTags") # {} /\ CallsOf(n, "Mkfs") = {}

\* C9: with exactly one volume already attached, the run writes no tag,
\* creates no volume, sends no attach request and never queries for reusable
\* volumes: it polls the attached volume.
C9_AttachedGoesToPoll ==
    \A n \in Instances :
        Len(proc[n].localAttachedVols) = 1 =>
            /\ proc[n].calls = {}
            /\ proc[n].found = <<>>
            /\ proc[n].describedVols = <<>>
            /\ ~proc[n].needMkfs
            /\ proc[n].attachVolumeID = proc[n].localAttachedVols[1].VolumeId
            /\ proc[n].pc \in {"pollAttach", "publish", "mkfs", "mount"}

C9_Witness ==
    \E n \in Instances :
        /\ Len(proc[n].localAttachedVols) = 1
        /\ proc[n].pc = "mount"
        /\ restarts > 0

\* the volume recorded in the state file of node n is not attached to n
RecordedNotAttached(n) ==
    /\ curEBSVolIDFile[n] # NoFile
    /\ ~LocalAttachedFilter(curEBSVolIDFile[n], n)

\* the step in which node n asks the backend for reusable volumes and runs
\* the lease check on the answer
ReuseQueryStep(n) ==
    /\ proc[n].pc = "describeAvail"
    /\ proc'[n].pc \in {"renewLease", "createVolume", "leaseExit"}

\* C11: a provisioner that starts on a node whose state file records volume V
\* while V is not attached to the node re-attaches V directly: it never asks
\* the backend for reusable volumes and never runs the lease check.
C11_RecordedVolumeReattached ==
    [][\A n \in Instances : RecordedNotAttached(n) => ~ReuseQueryStep(n)]_vars

\* ======================================================================
\* aws-eni-provisioner and aws-ip-provisioner
\* ======================================================================

\* the volume provisioner has not been started and no volume exists
VolIdle ==
    /\ now = 0
    /\ vols = [v \in VolIds |-> AbsentVolume]
    /\ proc = [n \in Instances |-> InitProc]
    /\ instanceTags = [n \in Instances |-> 0]
    /\ curEBSVolIDFile = [n \in Instances |-> NoFile]
    /\ restarts = 0

InitNet ==
    /\ VolIdle
    /\ enis \in {[e \in EniIds |-> AbsentENI],
                 [e \in EniIds |-> IF e = 1 THEN LeftoverENI ELSE AbsentENI]}
    /\ eips \in {[a \in EipIds |-> AbsentEIP],
                 [a \in EipIds |-> IF a = 1 THEN LeftoverEIP ELSE AbsentEIP]}
    /\ eniProc = [n \in NetInstances |-> InitENIProc]
    /\ eipProc = [n \in NetInstances |-> InitEIPProc]
    /\ curENIsFile = [n \in NetInstances |-> NoNetFile]
    /\ curEIPsFile = [n \in NetInstances |-> NoNetFile]
    /\ netInstanceTags = [n \in NetInstances |-> [enis |-> <<>>, eips |-> <<>>]]
    /\ netRestarts = 0
    /\ codec = IdleCodec
    /\ poller = IdlePoller
    /\ query = IdleQuery

\* the process has exited ("done": status 0, "fileExit": os.Exit(1) after
\* FileExists returned an error, "failed": any other os.Exit(1))
ExitedENI(status) == [InitENIProc EXCEPT !.pc = status]
ExitedEIP(status) == [InitEIPProc EXCEPT !.pc = status]

NetCall(op, id) == [op |-> op, id |-> id]

\* the primary network interface every instance has
PrimaryEni(instanceID) == <<"eni-primary-", instanceID>>

RECURSIVE SeqOfSet(_)
SeqOfSet(S) ==
    IF S = {} THEN <<>>
    ELSE LET m == CHOOSE x \in S : \A y \in S : x <= y IN <<m>> \o SeqOfSet(S \ {m})

\* ec2.GetENIsByInstanceID: the ids of the network interfaces of the instance
GetENIsByInstanceID(instanceID) ==
    LET attached == SeqOfSet({e \in EniIds : enis[e].state = "in-use" /\ enis[e].att = instanceID})
    IN <<PrimaryEni(instanceID)>> \o [i \in 1..Len(attached) |-> EniId(attached[i])]

\* ec2.ListEIPs with the instance-id filter
ListEIPs(instanceID) ==
    LET assoc == SeqOfSet({a \in EipIds : eips[a].state = "allocated" /\ eips[a].assoc = instanceID})
    IN [i \in 1..Len(assoc) |-> [AllocationId |-> AllocationId(assoc[i]),
                                 PublicIp |-> PublicIp(assoc[i])]]

SeqRange(s) == {s[i] : i \in 1..Len(s)}

\* AttachNetworkInterface succeeds for an existing interface that is attached
\* to nothing
BackendAttachENIOK(eniID) ==
    \E e \in EniIds : EniId(e) = eniID /\ enis[e].state = "available"

\* AssociateAddress by instance id: the allocation exists and the instance
\* has one network interface; an association elsewhere is replaced
BackendAssociateOK(allocationID, instanceID) ==
    /\ \E a \in EipIds : AllocationId(a) = allocationID /\ eips[a].state = "allocated"
    /\ Len(GetENIsByInstanceID(instanceID)) = 1

\* ------------------------------------------------------ aws-eni-provisioner
\* the two queries for the interfaces attached to this instance; only the
\* first answer is used later
DescribeENIs(n) ==
    /\ eniProc[n].pc = "start"
    /\ eniProc' = [eniProc EXCEPT ![n].curAttached1 = GetENIsByInstanceID(n),
                                  ![n].pc = "load"]
    /\ UNCHANGED <<enis, eips, eipProc, curENIsFile, curEIPsFile, netInstanceTags, netRestarts>>
    /\ UNCHANGED <<volVars, auxVars>>

LoadOrCreateENIs_AlwaysCreate(n) ==
    /\ eniProc[n].pc = "load"
    /\ \E e \in EniIds :
         /\ enis[e].state = "absent"
         /\ \A w \in EniIds : w < e => enis[w].state # "absent"
         /\ enis' = [enis EXCEPT ![e] =
                       [state |-> "available", att |-> "",
                        tags |-> ConvertTags(asgNameTagValue, EniPoolTags),
                        createdBy |-> n]]
         /\ eniProc' = [eniProc EXCEPT ![n].enisToAttach = <<EniId(e)>>,
                                       ![n].exists = curENIsFile[n].exists,
                                       ![n].calls = @ \cup {NetCall("CreateENI", EniId(e))},
                                       ![n].pc = "sync"]
    /\ UNCHANGED <<eips, eipProc, curENIsFile, curEIPsFile, netInstanceTags, netRestarts>>
    /\ UNCHANGED <<volVars, auxVars>>

\* the ids come from the local file when it exists, else from a new interface
LoadOrCreateENIs(n) ==
    /\ eniProc[n].pc = "load"
    /\ IF FileExists(Stat(curENIsFile[n])).err
       THEN /\ eniProc' = [eniProc EXCEPT ![n] = ExitedENI("fileExit")]
            /\ enis' = enis
       ELSE IF FileExists(Stat(curENIsFile[n])).exists
       THEN LET r == UnmarshalStrings(curENIsFile[n].content) IN
            /\ eniProc' = [eniProc EXCEPT ![n] =
                             IF r.ok THEN [@ EXCEPT !.enisToAttach = r.val,
                                                    !.exists = TRUE,
                                                    !.pc = "sync"]
                             ELSE ExitedENI("failed")]
            /\ enis' = enis
       ELSE \E e \in EniIds :
              /\ enis[e].state = "absent"
              /\ \A w \in EniIds : w < e => enis[w].state # "absent"
              /\ enis' = [enis EXCEPT ![e] =
                            [state |-> "available", att |-> "",
                             tags |-> ConvertTags(asgNameTagValue, EniPoolTags),
                             createdBy |-> n]]
              /\ eniProc' = [eniProc EXCEPT ![n].enisToAttach = <<EniId(e)>>,
                                            ![n].calls = @ \cup {NetCall("CreateENI", EniId(e))},
                                            ![n].pc = "sync"]
    /\ UNCHANGED <<eips, eipProc, curENIsFile, curEIPsFile, netInstanceTags, netRestarts>>
    /\ UNCHANGED <<volVars, auxVars>>

\* the attach loop skips every id that the first query reported as attached
ENIsNeedingAttach(enisToAttach, curAttached1) ==
    LET alreadyAttached == SeqRange(curAttached1)
        NotAttached(eniID) == eniID \notin alreadyAttached
    IN SelectSeq(enisToAttach, NotAttached)

ENIAfterAttach(p) ==
    IF p.next > Len(ENIsNeedingAttach(p.enisToAttach, p.curAttached1))
    THEN [p EXCEPT !.pc = "publish"]
    ELSE [p EXCEPT !.pc = "attach"]

\* json.Marshal of the ids and os.WriteFile of the local state file
SyncENIsFile(n) ==
    /\ eniProc[n].pc = "sync"
    /\ LET enisFileContents == MarshalStrings(eniProc[n].enisToAttach) IN
         /\ curENIsFile' = [curENIsFile EXCEPT ![n] =
                              [exists |-> TRUE, content |-> enisFileContents]]
         /\ eniProc' = [eniProc EXCEPT ![n] =
                          ENIAfterAttach([@ EXCEPT !.enisFileContents = enisFileContents,
                                                   !.next = 1])]
    /\ UNCHANGED <<enis, eips, eipProc, curEIPsFile, netInstanceTags, netRestarts>>
    /\ UNCHANGED <<volVars, auxVars>>

\* one round of the attach loop for the next id that is not attached yet
AttachENI(n) ==
    /\ eniProc[n].pc = "attach"
    /\ LET eniID == ENIsNeedingAttach(eniProc[n].enisToAttach,
                                      eniProc[n].curAttached1)[eniProc[n].next]
       IN IF BackendAttachENIOK(eniID)
          THEN /\ enis' = [e \in EniIds |->
                             IF EniId(e) = eniID
                             THEN [enis[e] EXCEPT !.state = "in-use", !.att = n]
                             ELSE enis[e]]
               /\ eniProc' = [eniProc EXCEPT ![n] =
                                ENIAfterAttach([@ EXCEPT !.calls = @ \cup {NetCall("AttachENI", eniID)},
                                                         !.next = @ + 1])]
          ELSE /\ enis' = enis
               /\ eniProc' = [eniProc EXCEPT ![n] = ExitedENI("failed")]
    /\ UNCHANGED <<eips, eipProc, curENIsFile, curEIPsFile, netInstanceTags, netRestarts>>
    /\ UNCHANGED <<volVars, auxVars>>

\* publish the file contents as a tag of the local instance, log the attached
\* interfaces and exit with status 0
PublishENIs(n) ==
    /\ eniProc[n].pc = "publish"
    /\ netInstanceTags' = [netInstanceTags EXCEPT ![n].enis = eniProc[n].enisFileContents]
    /\ eniProc' = [eniProc EXCEPT ![n] = ExitedENI("done")]
    /\ UNCHANGED <<enis, eips, eipProc, curENIsFile, curEIPsFile, netRestarts>>
    /\ UNCHANGED <<volVars, auxVars>>

\* any backend or local call returns an error: os.Exit(1)
ENICallFails(n) ==
    /\ eniProc[n].pc \in {"start", "load", "sync", "attach", "publish"}
    /\ eniProc' = [eniProc EXCEPT ![n] = ExitedENI("failed")]
    /\ UNCHANGED <<enis, eips, eipProc, curENIsFile, curEIPsFile, netInstanceTags, netRestarts>>
    /\ UNCHANGED <<volVars, auxVars>>

\* the provisioner is started again on the same instance after it exited
ENIRestart(n) ==
    /\ eniProc[n].pc \in {"done", "failed", "fileExit"}
    /\ netRestarts < MaxNetRestarts
    /\ netRestarts' = netRestarts + 1
    /\ eniProc' = [eniProc EXCEPT ![n] = InitENIProc]
    /\ UNCHANGED <<enis, eips, eipProc, curENIsFile, curEIPsFile, netInstanceTags>>
    /\ UNCHANGED <<volVars, auxVars>>

\* ------------------------------------------------------- aws-ip-provisioner
\* the addresses the backend reports as associated with this instance
ListAssociatedEIPs(n) ==
    /\ eipProc[n].pc = "start"
    /\ eipProc' = [eipProc EXCEPT ![n].curAssociated = ListEIPs(n),
                                  ![n].pc = "load"]
    /\ UNCHANGED <<enis, eips, eniProc, curENIsFile, curEIPsFile, netInstanceTags, netRestarts>>
    /\ UNCHANGED <<volVars, auxVars>>

\* ec2.LoadEIPs when the local file exists, else ec2.AllocateEIP
LoadOrAllocateEIPs(n) ==
    /\ eipProc[n].pc = "load"
    /\ IF FileExists(Stat(curEIPsFile[n])).err
       THEN /\ eipProc' = [eipProc EXCEPT ![n] = ExitedEIP("fileExit")]
            /\ eips' = eips
       ELSE IF FileExists(Stat(curEIPsFile[n])).exists
       THEN LET r == UnmarshalEIPs(curEIPsFile[n].content) IN
            /\ eipProc' = [eipProc EXCEPT ![n] =
                             IF r.ok THEN [@ EXCEPT !.eipsToAssociate = r.val,
                                                    !.exists = TRUE,
                                                    !.pc = "sync"]
                             ELSE ExitedEIP("failed")]
            /\ eips' = eips
       ELSE \E a \in EipIds :
              /\ eips[a].state = "absent"
              /\ \A w \in EipIds : w < a => eips[w].state # "absent"
              /\ eips' = [eips EXCEPT ![a] =
                            [state |-> "allocated", assoc |-> "",
                             tags |-> toTags(asgNameTagValue, EipPoolTags),
                             createdBy |-> n]]
              /\ eipProc' = [eipProc EXCEPT
                               ![n].eipsToAssociate = <<[AllocationID |-> AllocationId(a),
                                                         PublicIP |-> PublicIp(a)]>>,
                               ![n].calls = @ \cup {NetCall("AllocateEIP", AllocationId(a))},
                               ![n].pc = "sync"]
    /\ UNCHANGED <<enis, eniProc, curENIsFile, curEIPsFile, netInstanceTags, netRestarts>>
    /\ UNCHANGED <<volVars, auxVars>>

\* an EIP is already associated when an address of the instance has both its
\* allocation id and its public IP
NeedsAssociate(eipsToAssociate, curAssociated) ==
    LET alreadyAssociated(eip) ==
            \E i \in 1..Len(curAssociated) :
                /\ eip.AllocationID = curAssociated[i].AllocationId
                /\ eip.PublicIP = curAssociated[i].PublicIp
    IN {eip \in SeqRange(eipsToAssociate) : ~alreadyAssociated(eip)}

\* EIPs.Sync writes the local state file; then the EIPs to associate are
\* collected
SyncEIPsFile(n) ==
    /\ eipProc[n].pc = "sync"
    /\ curEIPsFile' = [curEIPsFile EXCEPT ![n] =
                         [exists |-> TRUE,
                          content |-> MarshalEIPs(eipProc[n].eipsToAssociate)]]
    /\ LET needsAssociate == NeedsAssociate(eipProc[n].eipsToAssociate,
                                            eipProc[n].curAssociated)
       IN eipProc' = [eipProc EXCEPT ![n].needsAssociate = needsAssociate,
                                     ![n].pc = IF needsAssociate = {} THEN "publish"
                                               ELSE "associate"]
    /\ UNCHANGED <<enis, eips, eniProc, curENIsFile, netInstanceTags, netRestarts>>
    /\ UNCHANGED <<volVars, auxVars>>

\* one round of the loop over needsAssociate (a map: any order)
AssociateEIP(n) ==
    /\ eipProc[n].pc = "associate"
    /\ \E eip \in eipProc[n].needsAssociate :
         IF BackendAssociateOK(eip.AllocationID, n)
         THEN /\ eips' = [a \in EipIds |->
                            IF AllocationId(a) = eip.AllocationID
                            THEN [eips[a] EXCEPT !.assoc = n]
                            ELSE eips[a]]
              /\ eipProc' = [eipProc EXCEPT
                               ![n].calls = @ \cup {NetCall("AssociateEIP", eip.AllocationID)},
                               ![n].needsAssociate = @ \ {eip},
                               ![n].pc = IF eipProc[n].needsAssociate = {eip}
                                         THEN "publish" ELSE "associate"]
         ELSE /\ eips' = eips
              /\ eipProc' = [eipProc EXCEPT ![n] = ExitedEIP("failed")]
    /\ UNCHANGED <<enis, eniProc, curENIsFile, curEIPsFile, netInstanceTags, netRestarts>>
    /\ UNCHANGED <<volVars, auxVars>>

\* publish EIPs.String() as a tag of the local instance and exit with status 0
PublishEIPs(n) ==
    /\ eipProc[n].pc = "publish"
    /\ netInstanceTags' = [netInstanceTags EXCEPT
                             ![n].eips = MarshalEIPs(eipProc[n].eipsToAssociate)]
    /\ eipProc' = [eipProc EXCEPT ![n] = ExitedEIP("done")]
    /\ UNCHANGED <<enis, eips, eniProc, curENIsFile, curEIPsFile, netRestarts>>
    /\ UNCHANGED <<volVars, auxVars>>

\* any backend or local call returns an error: os.Exit(1)
EIPCallFails(n) ==
    /\ eipProc[n].pc \in {"start", "load", "sync", "associate", "publish"}
    /\ eipProc' = [eipProc EXCEPT ![n] = ExitedEIP("failed")]
    /\ UNCHANGED <<enis, eips, eniProc, curENIsFile, curEIPsFile, netInstanceTags, netRestarts>>
    /\ UNCHANGED <<volVars, auxVars>>

\* the provisioner is started again on the same instance after it exited
EIPRestart(n) ==
    /\ eipProc[n].pc \in {"done", "failed", "fileExit"}
    /\ netRestarts < MaxNetRestarts
    /\ netRestarts' = netRestarts + 1
    /\ eipProc' = [eipProc EXCEPT ![n] = InitEIPProc]
    /\ UNCHANGED <<enis, eips, eniProc, curENIsFile, curEIPsFile, netInstanceTags>>
    /\ UNCHANGED <<volVars, auxVars>>

NextNet ==
    \/ \E n \in NetInstances : DescribeENIs(n)
    \/ \E n \in NetInstances : LoadOrCreateENIs(n)
    \/ \E n \in NetInstances : SyncENIsFile(n)
    \/ \E n \in NetInstances : AttachENI(n)
    \/ \E n \in NetInstances : PublishENIs(n)
    \/ \E n \in NetInstances : ENICallFails(n)
    \/ \E n \in NetInstances : ENIRestart(n)
    \/ \E n \in NetInstances : ListAssociatedEIPs(n)
    \/ \E n \in NetInstances : LoadOrAllocateEIPs(n)
    \/ \E n \in NetInstances : SyncEIPsFile(n)
    \/ \E n \in NetInstances : AssociateEIP(n)
    \/ \E n \in NetInstances : PublishEIPs(n)
    \/ \E n \in NetInstances : EIPCallFails(n)
    \/ \E n \in NetInstances : EIPRestart(n)

SpecNet == InitNet /\ [][NextNet]_vars

\* ======================================================================
\* Properties of the network provisioners
\* ======================================================================
HasTags(tags, wanted) ==
    \A k \in DOMAIN wanted : k \in DOMAIN tags /\ tags[k] = wanted[k]

\* a detached resource of the pool whose node is gone
ReusableENI(e) ==
    /\ enis[e].state = "available"
    /\ enis[e].att = ""
    /\ HasTags(enis[e].tags, EniPoolTags)
    /\ enis[e].createdBy = FormerInstance

ReusableEIP(a) ==
    /\ eips[a].state = "allocated"
    /\ eips[a].assoc = ""
    /\ HasTags(eips[a].tags, EipPoolTags)
    /\ eips[a].createdBy = FormerInstance

CreatesENI(n) ==
    /\ eniProc[n].pc = "load"
    /\ \E e \in EniIds : enis[e].state = "absent" /\ enis'[e].state # "absent"

AllocatesEIP(n) ==
    /\ eipProc[n].pc = "load"
    /\ \E a \in EipIds : eips[a].state = "absent" /\ eips'[a].state # "absent"

NetCallsOf(calls, op) == {c.id : c \in {d \in calls : d.op = op}}

\* C7: a node without a local state file creates a network interface or
\* allocates an elastic IP only when the backend holds no reusable resource
\* of its pool: no create step is taken while a detached interface (address)
\* with the pool tags, left by a node that is gone, exists.
C7_NoCreateWhileReusableExists ==
    [][\A n \in NetInstances :
          /\ CreatesENI(n) => ~\E e \in EniIds : ReusableENI(e)
          /\ AllocatesEIP(n) => ~\E a \in EipIds : ReusableEIP(a)]_vars

\* C10: when the local state file exists, the ids of the run are the ids
\* stored in the file, the run issues no create request, it requests an
\* attach (associate) only for loaded ids that the backend did not report as
\* attached to (associated with) this instance, and by the time it publishes
\* it has requested every such id.
C10_FileIdsLoadedAndAttached ==
    \A n \in NetInstances :
      /\ (eniProc[n].exists /\ eniProc[n].pc \in {"sync", "attach", "publish"}) =>
           LET loaded == SeqRange(eniProc[n].enisToAttach)
               reported == SeqRange(eniProc[n].curAttached1)
               requested == NetCallsOf(eniProc[n].calls, "AttachENI")
           IN /\ UnmarshalStrings(curENIsFile[n].content).val = eniProc[n].enisToAttach
              /\ NetCallsOf(eniProc[n].calls, "CreateENI") = {}
              /\ requested \subseteq loaded \ reported
              /\ eniProc[n].pc = "publish" => requested = loaded \ reported
      /\ (eipProc[n].exists /\ eipProc[n].pc \in {"sync", "associate", "publish"}) =>
           LET loaded == {eip.AllocationID : eip \in SeqRange(eipProc[n].eipsToAssociate)}
               reported == {addr.AllocationId : addr \in SeqRange(eipProc[n].curAssociated)}
               requested == NetCallsOf(eipProc[n].calls, "AssociateEIP")
           IN /\ UnmarshalEIPs(curEIPsFile[n].content).val = eipProc[n].eipsToAssociate
              /\ NetCallsOf(eipProc[n].calls, "AllocateEIP") = {}
              /\ requested \subseteq loaded \ reported
              /\ eipProc[n].pc = "publish" => requested = loaded \ reported

\* a run of the ENI provisioner that loaded an id which is already attached
\* and requested nothing, next to a run of the EIP provisioner that loaded an
\* id and associated it
C10_Witness ==
    \E n \in NetInstances :
      /\ eniProc[n].exists /\ eniProc[n].pc = "publish"
      /\ eniProc[n].enisToAttach # <<>>
      /\ SeqRange(eniProc[n].enisToAttach) \subseteq SeqRange(eniProc[n].curAttached1)
      /\ NetCallsOf(eniProc[n].calls, "AttachENI") = {}
      /\ eipProc[n].exists /\ eipProc[n].pc = "publish"
      /\ NetCallsOf(eipProc[n].calls, "AssociateEIP") # {}

\* the step in which node n's attach request for volume v is accepted
VolumeAttachStep(n, v) ==
    /\ proc[n].pc = "attach"
    /\ vols[v].att = NoAttachment
    /\ vols'[v].att # NoAttachment
    /\ vols'[v].att[1].InstanceId = n

ENIAttachStep(n, e) ==
    /\ eniProc[n].pc = "attach"
    /\ enis[e].att # n
    /\ enis'[e].att = n

EIPAssociateStep(n, a) ==
    /\ eipProc[n].pc = "associate"
    /\ eips[a].assoc # n
    /\ eips'[a].assoc = n

\* C12: for volumes, network interfaces and elastic IPs alike, the id of the
\* resource is in the node's local state file at the time the attach
\* (associate) request for it is issued.
C12_FileWrittenBeforeAttach ==
    [][\A n \in Instances :
          /\ \A v \in VolIds : VolumeAttachStep(n, v) => curEBSVolIDFile[n] = v
          /\ n \in NetInstances =>
               /\ \A e \in EniIds : ENIAttachStep(n, e) =>
                    /\ curENIsFile[n].exists
                    /\ EniId(e) \in SeqRange(UnmarshalStrings(curENIsFile[n].content).val)
               /\ \A a \in EipIds : EIPAssociateStep(n, a) =>
                    /\ curEIPsFile[n].exists
                    /\ \E eip \in SeqRange(UnmarshalEIPs(curEIPsFile[n].content).val) :
                         eip.AllocationID = AllocationId(a)]_vars

\* C14: a missing state file is no error. FileExists answers (false, nil) for
\* the not-exist error of os.Stat and (true, nil) for an existing file, and a
\* provisioner that finds no state file does not exit on that account: its
\* next step is the create (allocate) call, whose result it goes on to save.
C14_MissingFileIsNoError ==
    /\ FileExists(Stat(NoNetFile)) = [exists |-> FALSE, err |-> FALSE]
    /\ FileExists(Stat([exists |-> TRUE, content |-> <<>>])) = [exists |-> TRUE, err |-> FALSE]
    /\ [][\A n \in NetInstances :
            /\ (/\ eniProc[n].pc = "load"
                /\ ~curENIsFile[n].exists
                /\ eniProc'[n] # eniProc[n]
                /\ eniProc'[n].pc # "failed")
               => /\ eniProc'[n].pc = "sync"
                  /\ NetCallsOf(eniProc'[n].calls, "CreateENI") = SeqRange(eniProc'[n].enisToAttach)
                  /\ Len(eniProc'[n].enisToAttach) = 1
            /\ (/\ eipProc[n].pc = "load"
                /\ ~curEIPsFile[n].exists
                /\ eipProc'[n] # eipProc[n]
                /\ eipProc'[n].pc # "failed")
               => /\ eipProc'[n].pc = "sync"
                  /\ NetCallsOf(eipProc'[n].calls, "AllocateEIP")
                       = {eip.AllocationID : eip \in SeqRange(eipProc'[n].eipsToAssociate)}
                  /\ Len(eipProc'[n].eipsToAssociate) = 1]_vars

\* both provisioners found no state file and created a resource
C14_Witness ==
    \E n \in NetInstances :
      /\ ~eniProc[n].exists /\ eniProc[n].pc = "sync"
      /\ NetCallsOf(eniProc[n].calls, "CreateENI") # {}
      /\ ~eipProc[n].exists /\ eipProc[n].pc = "sync"
      /\ NetCallsOf(eipProc[n].calls, "AllocateEIP") # {}
      /\ netRestarts = 0


\* ======================================================================
\* Saving and loading the local state files
\* ======================================================================
\* strings with the characters that matter to the JSON text: none, an
\* identifier, quotes, backslashes and the punctuation of arrays and objects
CodecStrings ==
    {<<>>, <<"eipalloc-", "1">>, <<Quote, "}", ",">>, <<Backslash, "]">>}

CodecEIPs == [AllocationID : CodecStrings, PublicIP : CodecStrings]

ListsOf(S) == UNION {[1..k -> S] : k \in 0..MaxLen}

NotLoaded == [ok |-> FALSE, null |-> FALSE, items |-> <<>>]

\* a list of EIPs (nil or not) or a list of ENI ids is about to be saved
InitCodec ==
    /\ \/ \E e \in ListsOf(CodecEIPs), null \in BOOLEAN :
            /\ null => e = <<>>
            /\ codec = [pc |-> "sync", kind |-> "eips",
                        saved |-> [null |-> null, items |-> e],
                        file |-> NoNetFile, loaded |-> NotLoaded]
       \/ \E ids \in ListsOf(CodecStrings) :
            codec = [pc |-> "sync", kind |-> "enis",
                     saved |-> [null |-> FALSE, items |-> ids],
                     file |-> NoNetFile, loaded |-> NotLoaded]
    /\ poller = IdlePoller
    /\ query = IdleQuery
    /\ VolIdle
    /\ NetIdle

\* EIPs.Sync: json.Marshal of the list, written to the file
EIPsSync ==
    /\ codec.pc = "sync" /\ codec.kind = "eips"
    /\ codec' = [codec EXCEPT
                   !.file = [exists |-> TRUE,
                             content |-> IF codec.saved.null THEN JsonNull
                                         ELSE MarshalEIPs(codec.saved.items)],
                   !.pc = "load"]
    /\ UNCHANGED <<volVars, netVars, poller, query>>

\* LoadEIPs: the file read and decoded into a nil EIPs
LoadEIPs ==
    /\ codec.pc = "load" /\ codec.kind = "eips"
    /\ LET r == UnmarshalEIPs(codec.file.content) IN
         codec' = [codec EXCEPT
                     !.loaded = [ok |-> r.ok, null |-> r.null, items |-> r.val],
                     !.pc = "done"]
    /\ UNCHANGED <<volVars, netVars, poller, query>>

\* the ENI provisioner's json.Marshal of enisToAttach and os.WriteFile
WriteENIsFile ==
    /\ codec.pc = "sync" /\ codec.kind = "enis"
    /\ codec' = [codec EXCEPT
                   !.file = [exists |-> TRUE, content |-> MarshalStrings(codec.saved.items)],
                   !.pc = "load"]
    /\ UNCHANGED <<volVars, netVars, poller, query>>

\* the ENI provisioner's os.ReadFile and json.Unmarshal into an empty slice
ReadENIsFile ==
    /\ codec.pc = "load" /\ codec.kind = "enis"
    /\ LET r == UnmarshalStrings(codec.file.content) IN
         codec' = [codec EXCEPT
                     !.loaded = [ok |-> r.ok, null |-> FALSE, items |-> r.val],
                     !.pc = "done"]
    /\ UNCHANGED <<volVars, netVars, poller, query>>

NextCodec ==
    \/ EIPsSync
    \/ LoadEIPs
    \/ WriteENIsFile
    \/ ReadENIsFile

SpecCodec == InitCodec /\ [][NextCodec]_vars

MaxDescribes == 2

\* make(chan ..., 10)
ChanCap == 10

\* time.Duration(0), and the positive durations (pollInterval, initialWait)
\* all counted as one unit
ZeroDuration == 0
PollInterval == 1

\* the interval of the very first select
FirstInterval_PollInterval == PollInterval

FirstInterval == ZeroDuration

\* a described resource: its state and the states of its attachments
Resource(state, attach) == [state |-> state, attach |-> attach]

\* the Volume / ENI / Stack field of an event that carries none
NoResource == Resource("", <<>>)

VolumeResources ==
    { Resource("creating", <<>>), Resource("available", <<>>),
      Resource("in-use", <<"attaching">>), Resource("in-use", <<"attached">>),
      Resource("in-use", <<>>), Resource("error", <<>>) }

ENIResources ==
    { Resource("available", <<>>), Resource("in-use", <<"attaching">>),
      Resource("in-use", <<"attached">>) }

StackResources ==
    { Resource(st, <<>>) :
        st \in {"CREATE_IN_PROGRESS", "CREATE_COMPLETE", "DELETE_COMPLETE", "DELETE_FAILED"} }

\* the answer of one describe call: an error, or a list of resources
Answer(err, res) == [err |-> err, res |-> res]

\* the request fails at once when its context is done
Aborted == Answer("aborted", <<>>)

\* ec2.DescribeVolumes with the volume-id filter: a request error, no volume,
\* one volume, or more than one
VolumeAnswers ==
    {Answer("transient", <<>>), Answer("nil", <<>>),
     Answer("nil", <<Resource("available", <<>>), Resource("available", <<>>)>>)}
      \cup {Answer("nil", <<r>>) : r \in VolumeResources}

\* DescribeNetworkInterfaces with the network-interface-id filter
ENIAnswers ==
    {Answer("transient", <<>>), Answer("does not exist", <<>>), Answer("nil", <<>>)}
      \cup {Answer("nil", <<r>>) : r \in ENIResources}

\* DescribeStacks by stack name
StackAnswers ==
    {Answer("transient", <<>>), Answer("ValidationError: does not exist", <<>>),
     Answer("nil", <<>>)}
      \cup {Answer("nil", <<r>>) : r \in StackResources}

Answers(kind) ==
    CASE kind = "volume" -> VolumeAnswers
      [] kind = "eni" -> ENIAnswers
      [] kind = "stack" -> StackAnswers

eniNotExist(err) == err = "does not exist"

StackNotExist(err) == err = "ValidationError: does not exist"

\* an event on the channel
Event(res, err) == [res |-> res, err |-> err]

\* what one loop body does with the answer of its describe call: the event it
\* sends, and whether it then closes the channel and returns ("close"), takes
\* a continue statement ("continue") or runs to the end of the body ("end")
Outcome(ev, next) == [ev |-> ev, next |-> next]

PollVolumeBody_DeletedKeepsPolling(p, a) ==
    IF a.err # "nil" THEN Outcome(Event(NoResource, a.err), "continue")
    ELSE IF Len(a.res) # 1
    THEN Outcome(Event(NoResource, "unexpected volume response"), "continue")
    ELSE LET vol == a.res[1] IN
         IF vol.state # p.desired THEN Outcome(Event(vol, "nil"), "continue")
         ELSE IF p.desiredAttach = "" THEN Outcome(Event(vol, "nil"), "close")
         ELSE IF Len(vol.attach) # 1
         THEN Outcome(Event(vol, "unexpected attachment response"), "continue")
         ELSE IF vol.attach[1] = p.desiredAttach
         THEN Outcome(Event(vol, "nil"), "close")
         ELSE Outcome(Event(vol, "nil"), "end")

PollVolumeBody_CloseOnAnyState(p, a) ==
    IF a.err # "nil" THEN Outcome(Event(NoResource, a.err), "continue")
    ELSE IF Len(a.res) = 0 /\ p.desired = "deleted"
    THEN Outcome(Event(NoResource, "nil"), "close")
    ELSE IF Len(a.res) # 1
    THEN Outcome(Event(NoResource, "unexpected volume response"), "continue")
    ELSE LET vol == a.res[1] IN
         IF p.desiredAttach = "" THEN Outcome(Event(vol, "nil"), "close")
         ELSE IF vol.state # p.desired THEN Outcome(Event(vol, "nil"), "continue")
         ELSE IF Len(vol.attach) # 1
         THEN Outcome(Event(vol, "unexpected attachment response"), "continue")
         ELSE IF vol.attach[1] = p.desiredAttach
         THEN Outcome(Event(vol, "nil"), "close")
         ELSE Outcome(Event(vol, "nil"), "end")

PollVolumeBody_IgnoreAttachment(p, a) ==
    IF a.err # "nil" THEN Outcome(Event(NoResource, a.err), "continue")
    ELSE IF Len(a.res) = 0 /\ p.desired = "deleted"
    THEN Outcome(Event(NoResource, "nil"), "close")
    ELSE IF Len(a.res) # 1
    THEN Outcome(Event(NoResource, "unexpected volume response"), "continue")
    ELSE LET vol == a.res[1] IN
         IF vol.state # p.desired THEN Outcome(Event(vol, "nil"), "continue")
         ELSE Outcome(Event(vol, "nil"), "close")

PollVolumeBody(p, a) ==
    IF a.err # "nil" THEN Outcome(Event(NoResource, a.err), "continue")
    ELSE IF Len(a.res) = 0 /\ p.desired = "deleted"
    THEN Outcome(Event(NoResource, "nil"), "close")
    ELSE IF Len(a.res) # 1
    THEN Outcome(Event(NoResource, "unexpected volume response"), "continue")
    ELSE LET vol == a.res[1] IN
         IF vol.state # p.desired THEN Outcome(Event(vol, "nil"), "continue")
         ELSE IF p.desiredAttach = "" THEN Outcome(Event(vol, "nil"), "close")
         ELSE IF Len(vol.attach) # 1
         THEN Outcome(Event(vol, "unexpected attachment response"), "continue")
         ELSE IF vol.attach[1] = p.desiredAttach
         THEN Outcome(Event(vol, "nil"), "close")
         ELSE Outcome(Event(vol, "nil"), "end")

pollENIBody(p, a) ==
    IF a.err # "nil"
    THEN IF eniNotExist(a.err) /\ p.waitForDelete
         THEN Outcome(Event(NoResource, "nil"), "close")
         ELSE Outcome(Event(NoResource, a.err), "continue")
    ELSE IF Len(a.res) # 1
    THEN IF p.waitForDelete
         THEN Outcome(Event(NoResource, "nil"), "close")
         ELSE Outcome(Event(NoResource, "unexpected ENI response"), "continue")
    ELSE LET eni == a.res[1]
             currentAttachmentStatus == IF eni.attach = <<>> THEN "" ELSE eni.attach[1]
         IN  Outcome(Event(eni, "nil"),
                     IF /\ p.desired = eni.state
                        /\ p.desiredAttach = currentAttachmentStatus
                     THEN "close" ELSE "end")

PollBody(p, a) ==
    IF a.err # "nil"
    THEN IF StackNotExist(a.err)
         THEN IF p.desired = "DELETE_COMPLETE"
              THEN Outcome(Event(NoResource, "nil"), "close")
              ELSE Outcome(Event(NoResource, a.err), "close")
         ELSE Outcome(Event(NoResource, a.err), "continue")
    ELSE IF Len(a.res) # 1
    THEN Outcome(Event(NoResource, "unexpected stack response"), "continue")
    ELSE LET stack == a.res[1] IN
         IF p.desired # "DELETE_COMPLETE" /\ stack.state = "DELETE_COMPLETE"
         THEN Outcome(Event(stack, "stack failed thus deleted"), "close")
         ELSE IF p.desired = "DELETE_COMPLETE" /\ stack.state = "DELETE_FAILED"
         THEN Outcome(Event(stack, "failed to delete stack"), "close")
         ELSE Outcome(Event(stack, "nil"),
                      IF stack.state = p.desired THEN "close" ELSE "end")

Body_CloseOnError(p, a) ==
    IF a.err # "nil" THEN Outcome(Event(NoResource, a.err), "close")
    ELSE CASE p.kind = "volume" -> PollVolumeBody(p, a)
           [] p.kind = "eni" -> pollENIBody(p, a)
           [] p.kind = "stack" -> PollBody(p, a)

Body(p, a) ==
    CASE p.kind = "volume" -> PollVolumeBody(p, a)
      [] p.kind = "eni" -> pollENIBody(p, a)
      [] p.kind = "stack" -> PollBody(p, a)

\* ---------------------------------------------------------- one poll
\* ctx.Err()
CtxLive == "nil"
DeadlineExceeded == "context deadline exceeded"
Canceled == "context canceled"

\* the arguments of one call of PollVolume, PollENI / PollENIDelete or Poll
PollArgs(kind, desired, desiredAttach, waitForDelete, initialWait) ==
    [kind |-> kind, desired |-> desired, desiredAttach |-> desiredAttach,
     waitForDelete |-> waitForDelete, initialWait |-> initialWait]

PollCalls ==
    {PollArgs("volume", "", "", FALSE, ZeroDuration),
     PollArgs("volume", "available", "", FALSE, ZeroDuration),
     PollArgs("volume", "in-use", "", FALSE, ZeroDuration),
     PollArgs("volume", "in-use", "attached", FALSE, ZeroDuration),
     PollArgs("volume", "deleted", "", FALSE, ZeroDuration),
     PollArgs("eni", "available", "", FALSE, ZeroDuration),
     PollArgs("eni", "in-use", "attached", FALSE, ZeroDuration),
     PollArgs("eni", "", "", TRUE, ZeroDuration)}
      \cup {PollArgs("stack", st, "", FALSE, w) :
              st \in {"CREATE_COMPLETE", "DELETE_COMPLETE"},
              w \in {ZeroDuration, PollInterval}}

\* the poll right after the call: the channel is made and empty, nothing
\* is received, the goroutine has not run; the caller is about to range over
\* the channel and its status variable holds the zero value
StartedPoll(args) ==
    [pc |-> "start", kind |-> args.kind, desired |-> args.desired,
     desiredAttach |-> args.desiredAttach, waitForDelete |-> args.waitForDelete,
     initialWait |-> args.initialWait,
     interval |-> FirstInterval, first |-> TRUE, sel |-> "loop", woken |-> "",
     ctx |-> CtxLive, stopc |-> FALSE,
     events |-> <<>>, received |-> 0, answers |-> <<>>, waits |-> 0,
     consumer |-> "range", volStatus |-> Event(NoResource, "nil")]

InitPoll ==
    /\ \E args \in PollCalls : poller = StartedPoll(args)
    /\ codec = IdleCodec
    /\ query = IdleQuery
    /\ VolIdle
    /\ NetIdle

\* ch <- ev does not block
CanSend == Len(poller.events) - poller.received < ChanCap

Closed_WithoutEvent(p, ev) == [p EXCEPT !.pc = "closed"]

Closed_ReturnOnly(p, ev) == [p EXCEPT !.pc = "returned"]

\* ch <- ev; close(ch); return
Closed(p, ev) == [p EXCEPT !.events = Append(@, ev), !.pc = "closed"]

\* the function body before the goroutine
PollStart ==
    /\ poller.pc = "start"
    /\ poller' = IF poller.kind = "volume" /\ poller.desired = ""
                 THEN Closed(poller, Event(NoResource, "empty volume state"))
                 ELSE [poller EXCEPT !.pc = "head"]
    /\ UNCHANGED <<volVars, netVars, codec, query>>

LoopHead_SilentClose ==
    /\ poller.pc = "head"
    /\ IF poller.ctx # CtxLive
       THEN poller' = [poller EXCEPT !.pc = "closed"]
       ELSE poller' = [poller EXCEPT !.pc = "select", !.sel = "loop"]
    /\ UNCHANGED <<volVars, netVars, codec, query>>

\* for ctx.Err() == nil { ... }; after the loop the context error is sent
LoopHead ==
    /\ poller.pc = "head"
    /\ IF poller.ctx # CtxLive
       THEN /\ CanSend
            /\ poller' = Closed(poller, Event(NoResource, poller.ctx))
       ELSE poller' = [poller EXCEPT !.pc = "select", !.sel = "loop"]
    /\ UNCHANGED <<volVars, netVars, codec, query>>

\* the duration of the timer of the select the goroutine is at
Timer(p) == IF p.sel = "loop" THEN p.interval ELSE p.initialWait

\* the cases of the select that can proceed when the goroutine enters it
Ready(p) ==
    {c \in {"ctx", "stop", "timer"} :
        \/ c = "ctx" /\ p.ctx # CtxLive
        \/ c = "stop" /\ p.stopc
        \/ c = "timer" /\ Timer(p) = ZeroDuration}

RunCase_StopWithoutEvent(p, c) ==
    CASE c = "ctx" -> Closed(p, Event(NoResource, p.ctx))
      [] c = "stop" -> [p EXCEPT !.pc = "closed"]
      [] c = "timer" ->
           IF p.sel = "loop"
           THEN [p EXCEPT !.interval = IF @ = ZeroDuration THEN PollInterval ELSE @,
                          !.pc = "describe"]
           ELSE [p EXCEPT !.first = FALSE, !.pc = "head"]

\* the body of the chosen case
RunCase(p, c) ==
    CASE c = "ctx" -> Closed(p, Event(NoResource, p.ctx))
      [] c = "stop" -> Closed(p, Event(NoResource, "wait stopped"))
      [] c = "timer" ->
           IF p.sel = "loop"
           THEN [p EXCEPT !.interval = IF @ = ZeroDuration THEN PollInterval ELSE @,
                          !.pc = "describe"]
           ELSE [p EXCEPT !.first = FALSE, !.pc = "head"]

\* select: one of the ready cases, or block until the first of them happens
Select ==
    /\ poller.pc = "select"
    /\ IF Ready(poller) = {}
       THEN poller' = [poller EXCEPT !.pc = "blocked"]
       ELSE \E c \in Ready(poller) :
              /\ c = "timer" \/ CanSend
              /\ poller' = RunCase(poller, c)
    /\ UNCHANGED <<volVars, netVars, codec, query>>

\* the goroutine runs again after the event that ended its blocked select
Wake ==
    /\ poller.pc = "woken"
    /\ poller.woken = "timer" \/ CanSend
    /\ poller' = RunCase(poller, poller.woken)
    /\ UNCHANGED <<volVars, netVars, codec, query>>

\* a blocked select is decided by the first event on one of its channels
Signal(p, c) == IF p.pc = "blocked" THEN [p EXCEPT !.pc = "woken", !.woken = c] ELSE p

\* time.After(d) with a positive d delivers
TimerFires ==
    /\ poller.pc = "blocked"
    /\ poller' = [Signal(poller, "timer") EXCEPT !.waits = @ + 1]
    /\ UNCHANGED <<volVars, netVars, codec, query>>

\* the caller cancels the context of a running poll
Cancel ==
    /\ poller.pc # "closed"
    /\ poller.ctx = CtxLive
    /\ poller' = Signal([poller EXCEPT !.ctx = Canceled], "ctx")
    /\ UNCHANGED <<volVars, netVars, codec, query>>

\* the deadline of the context passes
Deadline ==
    /\ poller.pc # "closed"
    /\ poller.ctx = CtxLive
    /\ poller' = Signal([poller EXCEPT !.ctx = DeadlineExceeded], "ctx")
    /\ UNCHANGED <<volVars, netVars, codec, query>>

\* the caller closes stopc
CloseStop ==
    /\ poller.pc # "closed"
    /\ ~poller.stopc
    /\ poller' = Signal([poller EXCEPT !.stopc = TRUE], "stop")
    /\ UNCHANGED <<volVars, netVars, codec, query>>

\* the describe call and the rest of the loop body
Describe ==
    /\ poller.pc = "describe"
    /\ CanSend
    /\ Len(poller.answers) < MaxDescribes \/ poller.ctx # CtxLive
    /\ \E a \in (IF poller.ctx # CtxLive THEN {Aborted} ELSE Answers(poller.kind)) :
         LET o == Body(poller, a) IN
         poller' = [poller EXCEPT
                      !.events = Append(@, o.ev),
                      !.answers = Append(@, a),
                      !.sel = IF o.next = "end" /\ poller.kind = "stack" /\ poller.first
                              THEN "first" ELSE @,
                      !.pc = CASE o.next = "close" -> "closed"
                               [] o.next = "continue" -> "head"
                               [] o.next = "end" ->
                                    IF poller.kind = "stack" /\ poller.first
                                    THEN "select" ELSE "head"]
    /\ UNCHANGED <<volVars, netVars, codec, query>>

\* the consumer: for ev := range ch
Receive ==
    /\ poller.received < Len(poller.events)
    /\ poller' = [poller EXCEPT !.received = @ + 1]
    /\ UNCHANGED <<volVars, netVars, codec, query>>

Goroutine == PollStart \/ LoopHead \/ Select \/ Wake \/ Describe

NextPoll ==
    \/ PollStart
    \/ LoopHead
    \/ Select
    \/ Wake
    \/ Describe
    \/ TimerFires
    \/ Cancel
    \/ Deadline
    \/ CloseStop
    \/ Receive

SpecPoll == InitPoll /\ [][NextPoll]_vars

\* the goroutine is scheduled, timers deliver, the consumer keeps receiving
SpecPollFair ==
    /\ InitPoll
    /\ [][NextPoll]_vars
    /\ WF_vars(Goroutine)
    /\ WF_vars(TimerFires)
    /\ WF_vars(Receive)

\* ------------------------------------------------- properties of a poll
ChannelClosed == poller.pc = "closed"

\* the answer holds exactly one resource, in the state the poll waits for and,
\* where an attachment state is part of the target, with that attachment
\* state (PollVolume: a non-empty volumeAttachmentState; pollENI: always, the
\* empty desiredAttach being the state of an interface without attachment)
ShowsTarget(p, a) ==
    /\ a.err = "nil"
    /\ Len(a.res) = 1
    /\ a.res[1].state = p.desired
    /\ CASE p.kind = "volume" ->
              p.desiredAttach = "" \/ a.res[1].attach = <<p.desiredAttach>>
         [] p.kind = "eni" ->
              a.res[1].attach = IF p.desiredAttach = "" THEN <<>> ELSE <<p.desiredAttach>>
         [] p.kind = "stack" -> TRUE

\* C15: when the first describe of a poll shows the target, the channel carries
\* exactly one event, that resource with a nil error, and is closed, and no
\* timer of positive duration was waited for.
C15_FirstDescribeAtTarget ==
    (Len(poller.answers) >= 1 /\ ShowsTarget(poller, poller.answers[1]))
      => /\ ChannelClosed
         /\ poller.events = <<Event(poller.answers[1].res[1], "nil")>>
         /\ poller.waits = 0

\* a volume poll with a requested attachment state met its target at once and
\* the consumer has the event
C15_Witness ==
    /\ poller.kind = "volume"
    /\ poller.desiredAttach = "attached"
    /\ Len(poller.answers) = 1
    /\ ShowsTarget(poller, poller.answers[1])
    /\ poller.received = 1

\* the last event sent on the channel, if any
LastEvent(p) ==
    IF p.events = <<>> THEN Event(NoResource, "<no event>") ELSE p.events[Len(p.events)]

\* the poll is in its loop: the goroutine runs and the channel is open
Polling(p) == p.pc \notin {"off", "start", "closed"}

\* C16: a poll terminates once the deadline of its context has passed. The
\* step that closes the channel of a poll whose deadline has passed (and whose
\* stop channel is open) sends the context error as the last event, and with
\* the goroutine scheduled and the consumer receiving, a passed deadline always
\* leads to the closed channel.
C16_DeadlineEndsPoll ==
    /\ [][(/\ Polling(poller)
           /\ poller.ctx = DeadlineExceeded
           /\ ~poller.stopc
           /\ poller'.pc = "closed")
          => LastEvent(poller') = Event(NoResource, DeadlineExceeded)]_vars
    /\ (poller.ctx = DeadlineExceeded) ~> ChannelClosed

\* a poll that used all its describe calls without seeing its target was
\* closed by the deadline
C16_Witness ==
    /\ ChannelClosed
    /\ ~poller.stopc
    /\ Len(poller.answers) >= MaxDescribes
    /\ \A i \in 1..Len(poller.answers) : ~ShowsTarget(poller, poller.answers[i])
    /\ LastEvent(poller) = Event(NoResource, DeadlineExceeded)
    /\ poller.received = Len(poller.events)

\* the step is one loop body: a describe call and what follows it
DescribeStep == Len(poller'.answers) = Len(poller.answers) + 1

\* the answer of the describe call of a DescribeStep
StepAnswer == poller'.answers[Len(poller'.answers)]

\* the step sends exactly the event ev
Sends(ev) == poller'.events = Append(poller.events, ev)

\* an earlier describe call of the poll failed
FailedBefore == \E i \in 1..Len(poller.answers) : poller.answers[i].err # "nil"

\* a later tick that observes the target ends the poll with that resource
LaterTargetEndsPoll ==
    (DescribeStep /\ FailedBefore /\ ShowsTarget(poller, StepAnswer))
      => /\ Sends(Event(StepAnswer.res[1], "nil"))
         /\ poller'.pc = "closed"

\* the error says that the polled resource does not exist, and the loop body
\* ends the poll on it: cfn.Poll always, pollENI when it waits for deletion
EndsOnNotExist(p, err) ==
    \/ p.kind = "stack" /\ StackNotExist(err)
    \/ p.kind = "eni" /\ eniNotExist(err) /\ p.waitForDelete

\* C17 as stated: every failed describe call sends one event with that error
\* and leaves the channel open, and a later tick at the target ends the poll
\* with a nil-error event.
C17_FailedDescribeKeepsPolling ==
    [][/\ (DescribeStep /\ StepAnswer.err # "nil")
            => /\ Sends(Event(NoResource, StepAnswer.err))
               /\ poller'.pc # "closed"
       /\ LaterTargetEndsPoll]_vars

\* C17, amended: a describe call that fails with an error other than a
\* does-not-exist error on which the poller ends (cfn.Poll: always; pollENI:
\* when waiting for deletion) sends one event with that error and leaves the
\* channel open; on such a does-not-exist error the poll ends at once, with a
\* nil error when deletion was the target and with the error otherwise; a
\* later tick at the target ends the poll with a nil-error event.
C17_TransientFailureKeepsPolling ==
    [][/\ (DescribeStep /\ StepAnswer.err # "nil")
            => IF EndsOnNotExist(poller, StepAnswer.err)
               THEN /\ poller'.pc = "closed"
                    /\ Sends(Event(NoResource,
                                   IF poller.waitForDelete \/ poller.desired = "DELETE_COMPLETE"
                                   THEN "nil" ELSE StepAnswer.err))
               ELSE /\ Sends(Event(NoResource, StepAnswer.err))
                    /\ poller'.pc # "closed"
       /\ LaterTargetEndsPoll]_vars

\* after a failed first tick the second tick saw the target and ended the poll
C17_Witness ==
    /\ Len(poller.answers) = 2
    /\ poller.answers[1].err = "transient"
    /\ ShowsTarget(poller, poller.answers[2])
    /\ Len(poller.events) = 2
    /\ poller.events[1] = Event(NoResource, "transient")
    /\ poller.events[2] = Event(poller.answers[2].res[1], "nil")
    /\ ChannelClosed

\* the answer shows the resource in a state from which the target of the poll
\* can no longer be reached
TerminalFailure(p, a) ==
    /\ a.err = "nil"
    /\ Len(a.res) = 1
    /\ \/ /\ p.kind = "volume"
          /\ p.desired \in {"available", "in-use"}
          /\ a.res[1].state = "error"
       \/ /\ p.kind = "stack"
          /\ p.desired # "DELETE_COMPLETE"
          /\ a.res[1].state = "DELETE_COMPLETE"
       \/ /\ p.kind = "stack"
          /\ p.desired = "DELETE_COMPLETE"
          /\ a.res[1].state = "DELETE_FAILED"

\* C18: a tick that observes a terminal failure state sends an error event and
\* closes the channel.
C18_TerminalFailureEndsPoll ==
    [][(DescribeStep /\ TerminalFailure(poller, StepAnswer))
         => /\ poller'.pc = "closed"
            /\ LastEvent(poller').err # "nil"
            /\ Len(poller'.events) = Len(poller.events) + 1]_vars

\* the answer says that the polled resource does not exist: an empty list
\* under the id filter (volumes, interfaces) or a does-not-exist error
\* (interfaces, stacks)
ShowsAbsent(p, a) ==
    \/ p.kind = "volume" /\ a.err = "nil" /\ Len(a.res) = 0
    \/ p.kind = "eni" /\ (eniNotExist(a.err) \/ (a.err = "nil" /\ Len(a.res) = 0))
    \/ p.kind = "stack" /\ StackNotExist(a.err)

\* the poll waits for deletion
DeleteTarget(p) ==
    \/ p.kind = "volume" /\ p.desired = "deleted"
    \/ p.kind = "eni" /\ p.waitForDelete
    \/ p.kind = "stack" /\ p.desired = "DELETE_COMPLETE"

\* C19: a tick of a poll with a non-delete target that finds the resource
\* absent sends an error event and closes the channel.
C19_AbsentResourceEndsPoll ==
    [][(DescribeStep /\ ~DeleteTarget(poller) /\ ShowsAbsent(poller, StepAnswer))
         => /\ poller'.pc = "closed"
            /\ LastEvent(poller').err # "nil"
            /\ Len(poller'.events) = Len(poller.events) + 1]_vars

\* the stop channel is closed or the context is done
Stopped(p) == p.stopc \/ p.ctx # CtxLive

\* the errors of the events with which a stopped poll ends
StopErrors(p) ==
    (IF p.stopc THEN {"wait stopped"} ELSE {}) \cup (IF p.ctx # CtxLive THEN {p.ctx} ELSE {})

\* C20: once the stop channel is closed or the context is done the poller
\* makes no describe call, and the only event it still sends is the error
\* event of the stop, with which it closes the channel.
C20_NoDescribeAfterStop ==
    [][(Polling(poller) /\ Stopped(poller))
         => /\ ~DescribeStep
            /\ poller'.events # poller.events
                 => /\ \E err \in StopErrors(poller) : Sends(Event(NoResource, err))
                    /\ poller'.pc = "closed"]_vars

\* the i-th event on the channel is the event of the i-th tick
EventsInTickOrder ==
    \A i \in 1..Len(poller.answers) :
      /\ i <= Len(poller.events)
      /\ poller.events[i] = Body(poller, poller.answers[i]).ev

\* the errors of the events that end a poll without a tick
FinalErrors == {"wait stopped", DeadlineExceeded, Canceled, "empty volume state"}

\* C21 as stated: PollVolume sends one event per tick, in tick order, and when
\* the channel is closed the number of events equals the number of ticks, also
\* for a poll ended by deadline or cancellation.
C21_OneEventPerTick ==
    poller.kind = "volume"
      => /\ EventsInTickOrder
         /\ ChannelClosed => Len(poller.events) = Len(poller.answers)

\* C21, amended: PollVolume sends one event per tick, in tick order; a poll
\* that ends on a tick (target reached) has as many events as ticks, and a
\* poll ended by deadline, cancellation, stop or an empty target state has one
\* more, the final error event, which is sent last.
C21_OneEventPerTickAndFinalError ==
    poller.kind = "volume"
      => /\ EventsInTickOrder
         /\ Len(poller.events) \in {Len(poller.answers), Len(poller.answers) + 1}
         /\ Len(poller.events) = Len(poller.answers) + 1
              => /\ ChannelClosed
                 /\ LastEvent(poller).err \in FinalErrors
         /\ (ChannelClosed /\ Len(poller.events) = Len(poller.answers))
              => /\ Len(poller.answers) >= 1
                 /\ Body(poller, poller.answers[Len(poller.answers)]).next = "close"

\* a volume poll took all its ticks and was then ended by the deadline; the
\* consumer has received every event
C21_Witness ==
    /\ poller.kind = "volume"
    /\ ChannelClosed
    /\ Len(poller.answers) = MaxDescribes
    /\ Len(poller.events) = MaxDescribes + 1
    /\ LastEvent(poller).err = DeadlineExceeded
    /\ poller.received = Len(poller.events)


\* ======================================================================
\* The convergence wait of the volume provisioner: PollVolume and the loop
\* of cmdFunc that ranges over its channel
\* ======================================================================

\* the two polls of the volume provisioner: the created volume until it is
\* available, the attached volume until it is in use and attached
ProvisionerPolls ==
    {PollArgs("volume", "available", "", FALSE, ZeroDuration),
     PollArgs("volume", "in-use", "attached", FALSE, ZeroDuration)}

InitWait ==
    /\ \E args \in ProvisionerPolls : poller = StartedPoll(args)
    /\ codec = IdleCodec
    /\ query = IdleQuery
    /\ VolIdle
    /\ NetIdle

\* os.Exit or a panic ends the process, and the goroutine with it
ProcessExit(p, status) == [p EXCEPT !.consumer = status, !.pc = "exited"]

\* one iteration of for volStatus = range ch: the received event is assigned,
\* a done context or a signal ends the process with status 1, otherwise the
\* volume id of the event is dereferenced for the log line
Consume ==
    /\ poller.consumer = "range"
    /\ poller.received < Len(poller.events)
    /\ LET ev == poller.events[poller.received + 1]
           got == [poller EXCEPT !.received = @ + 1, !.volStatus = ev]
       IN \E sig \in BOOLEAN :
            poller' = IF sig \/ poller.ctx # CtxLive
                      THEN ProcessExit([got EXCEPT !.stopc = TRUE], "exit1")
                      ELSE IF ev.res = NoResource
                      THEN ProcessExit(got, "panic")
                      ELSE got
    /\ UNCHANGED <<volVars, netVars, codec, query>>

\* the channel is closed and drained: the last event decides
AfterRange ==
    /\ poller.consumer = "range"
    /\ poller.pc = "closed"
    /\ poller.received = Len(poller.events)
    /\ poller' = [poller EXCEPT !.consumer =
                    IF poller.volStatus.err # "nil" \/ poller.volStatus.res = NoResource
                    THEN "exit1" ELSE "proceed"]
    /\ UNCHANGED <<volVars, netVars, codec, query>>

NextWait ==
    \/ PollStart
    \/ LoopHead
    \/ Select
    \/ Wake
    \/ Describe
    \/ TimerFires
    \/ Deadline
    \/ Consume
    \/ AfterRange

SpecWait == InitWait /\ [][NextWait]_vars

\* the step receives the next event of the channel
ConsumeStep == poller.consumer = "range" /\ poller'.received = poller.received + 1

\* the event that the step receives
ConsumedEvent == poller.events[poller.received + 1]

\* the event shows the volume in use and attached, with no error
AttachedEvent(ev) ==
    ev.err = "nil" /\ ev.res.state = "in-use" /\ ev.res.attach = <<"attached">>

\* C22: an error event of a transient describe failure does not abort the
\* boot sequence: the provisioner that receives it keeps ranging over the
\* channel (unless the deadline or a signal ends the run at that moment), and
\* when the channel closes on an event that shows the volume in use and
\* attached the provisioner goes on.
C22_TransientPollErrorAbsorbed ==
    [][/\ (ConsumeStep /\ poller.desired = "in-use" /\ ConsumedEvent.err = "transient")
            => poller'.consumer \in {"range", "exit1"}
       /\ (poller.consumer = "range" /\ poller'.consumer \notin {"range", "exit1", "panic"})
            => /\ poller'.consumer = "proceed"
               /\ poller.desired = "in-use" => AttachedEvent(poller.volStatus)]_vars

\* ======================================================================
\* Failure handling and concurrency of the volume provisioner
\* ======================================================================

\* the create and attach requests among a run's successful calls
RequestsOf(calls) == {c \in calls : c.op \in {"CreateVolume", "AttachVolume"}}

NetRequestsOf(calls) == {c \in calls : c.op \in {"CreateENI", "AttachENI"}}

\* the lease holder written on volume v, <<>> when v has no well-formed lease
LeaseHolderOf(v) ==
    IF vols[v].state = "absent" \/ volLeaseHoldKey \notin DOMAIN vols[v].tags
    THEN <<>>
    ELSE LET ss == Split(vols[v].tags[volLeaseHoldKey], "_") IN
         IF Len(ss) = 2 THEN ss[1] ELSE <<>>

AttachedTo(v, n) ==
    /\ vols[v].state = "in-use"
    /\ vols[v].att # NoAttachment
    /\ vols[v].att[1].InstanceId = n

C24_LeaseWriteFailureRetried ==
    [][\A n \in Instances :
         (proc[n].pc = "renewLease" /\ proc'[n] # proc[n]) => proc'[n].pc # "failed"]_vars


\* the run of node n wrote the lease tag of volume v
WroteLease(n, v) == \E c \in CallsOf(n, "CreateTags") : c.vol = v

\* C25: of two nodes that claim the same volume at most one gets it: a run
\* that is past its attach request holds the attachment of its volume, two
\* runs past their attach requests have different volumes, a run whose
\* volume is attached to the other node is refused by the backend, and no
\* two nodes record or publish the same volume
C25_OneAttachWins ==
    \A n, m \in Instances :
        n # m =>
          /\ PastAttach(n) => AttachedTo(proc[n].attachVolumeID, n)
          /\ (PastAttach(n) /\ PastAttach(m)) =>
               proc[n].attachVolumeID # proc[m].attachVolumeID
          /\ (proc[n].pc = "attach" /\ AttachedTo(proc[n].describedVols[1].VolumeId, m)) =>
               ~BackendAttachOK(proc[n].describedVols[1].VolumeId, n)
          /\ curEBSVolIDFile[n] # NoFile => curEBSVolIDFile[m] # curEBSVolIDFile[n]
          /\ instanceTags[n] # 0 => instanceTags[m] # instanceTags[n]

\* both nodes wrote the lease of the same volume, one of them attached it
\* and the other stands at its attach request
C25_Witness ==
    \E n, m \in Instances : \E v \in VolIds :
        /\ n # m
        /\ WroteLease(n, v) /\ WroteLease(m, v)
        /\ PastAttach(m) /\ proc[m].attachVolumeID = v
        /\ proc[n].pc = "attach" /\ proc[n].describedVols[1].VolumeId = v


\* C26: a run that got past the wait for its attached volume wrote, in this
\* run, the lease of that volume with this node as holder and the time of
\* the run, either with CreateTags or in the tags of CreateVolume
C26_AttachedRunWroteLease ==
    \A n \in Instances :
        proc[n].pc \in {"publish", "mkfs", "mount"} =>
            \E c \in proc[n].calls :
                /\ c.op \in {"CreateTags", "CreateVolume"}
                /\ c.vol = proc[n].attachVolumeID
                /\ c.val = ExpectedLease(n)


\* C27: the volumes a run selects for reuse were all in state available and
\* attached to nothing when the backend answered the reuse query, and the
\* lease write of the reuse branch is for the first of them
C27_OnlyAvailableSelected ==
    \A n \in Instances :
        /\ \A i \in DOMAIN proc[n].found :
             /\ proc[n].found[i].State = "available"
             /\ proc[n].found[i].Attachments = NoAttachment
        /\ proc[n].pc = "renewLease" =>
             /\ proc[n].found # <<>>
             /\ proc[n].describedVols = proc[n].found

\* a volume that existed from the start is attached to one node with a lease
\* written at time 0; the other node queried at time 601, when that lease
\* was older than the timeout, did not get the volume and creates its own
C27_Witness ==
    \E n, m \in Instances : \E v \in VolIds :
        /\ n # m
        /\ vols[v].createdBy = ""
        /\ AttachedTo(v, m)
        /\ volLeaseHoldKey \in DOMAIN vols[v].tags
        /\ vols[v].tags[volLeaseHoldKey] = LeaseHoldValue(m, 0)
        /\ proc[n].pc = "createVolume"
        /\ proc[n].found = <<>>
        /\ proc[n].unixTS > LeaseTimeoutSeconds


\* ------------------------------------------- volumes of other zones and pools
OtherZone == "us-east-1b"

\* an available volume that is not of the nodes' zone and pool: the pool's
\* volume of another zone (with no lease or with one long expired), or a
\* volume of the zone whose Id, Kind or auto-scaling-group tag differs
ForeignVolumes ==
    {[PreexistingVolume(lease) EXCEPT !.zone = OtherZone] : lease \in {<<>>, <<"i-0", "_", "0">>}}
    \cup {[PreexistingVolume(<<>>) EXCEPT !.tags = (k :> "other") @@ PoolTags] :
             k \in {idTagKey, kindTagKey, asgNameTagKey}}

\* the provisioners start while volume 1 is such a volume
InitZones ==
    /\ now = 0
    /\ \E foreign \in ForeignVolumes :
         vols = [v \in VolIds |-> IF v = 1 THEN foreign ELSE AbsentVolume]
    /\ proc = [n \in Instances |-> InitProc]
    /\ instanceTags = [n \in Instances |-> 0]
    /\ curEBSVolIDFile = [n \in Instances |-> NoFile]
    /\ restarts = 0
    /\ NetIdle
    /\ codec = IdleCodec
    /\ poller = IdlePoller
    /\ query = IdleQuery

SpecZones == InitZones /\ [][Next]_vars

InZoneAndPool(v) == vols[v].zone = az /\ HasPoolTags(v)

\* C28: every volume a run has written a lease on, created or attached, every
\* volume attached to a node, recorded in its state file or published in its
\* instance tag is of the nodes' zone and pool; a volume of another zone or
\* pool stays as it was
C28_OwnZoneAndPoolOnly ==
    /\ \A n \in Instances :
         /\ \A c \in proc[n].calls : InZoneAndPool(c.vol)
         /\ PastAttach(n) => InZoneAndPool(proc[n].attachVolumeID)
         /\ curEBSVolIDFile[n] # NoFile => InZoneAndPool(curEBSVolIDFile[n])
         /\ instanceTags[n] # 0 => InZoneAndPool(instanceTags[n])
    /\ \A v \in VolIds :
         /\ vols[v].att # NoAttachment => InZoneAndPool(v)
         /\ (vols[v].state # "absent" /\ ~InZoneAndPool(v)) => vols[v] \in ForeignVolumes

\* a node has attached and recorded a volume of its own while an available
\* volume of the pool in another zone exists
C28_Witness ==
    \E n \in Instances : \E v, w \in VolIds :
        /\ vols[w].state = "available" /\ vols[w].zone = OtherZone /\ HasPoolTags(w)
        /\ curEBSVolIDFile[n] = v
        /\ AttachedTo(v, n)


\* ======================================================================
\* Properties of the convergence wait
\* ======================================================================

\* C29: the provisioner goes past the wait for the attached volume only
\* after the channel was closed and every event was received, and the last
\* event received had a nil error and showed the volume in-use with
\* attachment state attached; a wait that ended in any other way ended the
\* process with a non-zero status
C29_ProceedsOnlyWhenAttached ==
    /\ poller.consumer \in {"range", "proceed", "exit1", "panic"}
    /\ poller.consumer = "proceed" =>
         /\ ChannelClosed
         /\ poller.received = Len(poller.events)
         /\ poller.received > 0
         /\ poller.volStatus = LastEvent(poller)
         /\ poller.desired = "in-use" => AttachedEvent(poller.volStatus)
    /\ (poller.consumer # "range" /\ poller.desired = "in-use"
           /\ ~AttachedEvent(poller.volStatus)) =>
         poller.consumer \in {"exit1", "panic"}

\* the provisioner went on after a tick that showed the volume still
\* attaching and a later tick that showed it attached
C29_Witness ==
    /\ poller.desired = "in-use"
    /\ poller.consumer = "proceed"
    /\ Len(poller.events) >= 2
    /\ poller.events[1].err = "nil"
    /\ ~AttachedEvent(poller.events[1])


\* C30: once every provisioner has exited, each volume that is attached to a
\* node carries a lease whose holder is that node
C30_AttachedVolumeLeasedByHolder ==
    (\A n \in Instances : proc[n].pc \in {"done", "failed", "leaseExit"}) =>
        \A v \in VolIds : \A n \in Instances :
            AttachedTo(v, n) => LeaseHolderOf(v) = <<n>>


\* ======================================================================
\* Restarts, waits and the lease value
\* ======================================================================

\* the resources that runs on node n created and that still exist
VolumesCreatedBy(n) == {v \in VolIds : vols[v].state # "absent" /\ vols[v].createdBy = n}

ENIsCreatedBy(n) == {e \in EniIds : enis[e].state # "absent" /\ enis[e].createdBy = n}

EIPsCreatedBy(n) == {a \in EipIds : eips[a].state # "absent" /\ eips[a].createdBy = n}

\* C31: however often the provisioners of a node are started again, the node
\* has created at most one volume, one interface and one address that exist
C31_OneResourcePerNode ==
    /\ \A n \in Instances : Cardinality(VolumesCreatedBy(n)) <= 1
    /\ \A n \in NetInstances :
         /\ Cardinality(ENIsCreatedBy(n)) <= 1
         /\ Cardinality(EIPsCreatedBy(n)) <= 1

\* C32: a run that stands at the mount step with a volume that a run on the
\* same node created has a volume that carries a filesystem: mkfs has
\* completed on it in this run or in an earlier one
C32_FormattedBeforeMount ==
    \A n \in Instances :
        (proc[n].pc = "mount" /\ vols[proc[n].attachVolumeID].createdBy = n) =>
            vols[proc[n].attachVolumeID].fs

\* ------------------------------------------------- the reuse query loop
\* the loop around the query for available volumes, with time in seconds
\* since its context was made
QueryTimeout == 40

QueryInterval == 5

\* what one DescribeVolumes call returns: an error or a number of volumes
QueryAnswers ==
    {[err |-> TRUE, vols |-> 0]} \cup {[err |-> FALSE, vols |-> k] : k \in 0..MaxVols}

InitQuery ==
    /\ query = [pc |-> "loopHead", ctx |-> CtxLive, elapsed |-> 0, timer |-> 0,
                answers |-> <<>>, describedVols |-> 0]
    /\ codec = IdleCodec
    /\ poller = IdlePoller
    /\ VolIdle
    /\ NetIdle

\* for ctx.Err() == nil
QueryLoopHead ==
    /\ query.pc = "loopHead"
    /\ query' = IF query.ctx = CtxLive
                THEN [query EXCEPT !.pc = "select", !.timer = query.elapsed + QueryInterval]
                ELSE [query EXCEPT !.pc = "afterLoop"]
    /\ UNCHANGED <<volVars, netVars, codec, poller>>

\* the select between ctx.Done() and time.After: one of the ready cases
QuerySelect ==
    /\ query.pc = "select"
    /\ \/ /\ query.ctx # CtxLive
          /\ query' = [query EXCEPT !.pc = "exit1"]
       \/ /\ query.elapsed >= query.timer
          /\ query' = [query EXCEPT !.pc = "describe"]
    /\ UNCHANGED <<volVars, netVars, codec, poller>>

\* ec2.DescribeVolumes with the context, cancel(), and the checks of the
\* error and of the number of volumes
QueryDescribe ==
    /\ query.pc = "describe"
    /\ \E a \in QueryAnswers :
         /\ query.ctx # CtxLive => a.err
         /\ query' = [query EXCEPT
                        !.answers = Append(@, a),
                        !.describedVols = a.vols,
                        !.ctx = IF @ = CtxLive THEN Canceled ELSE @,
                        !.pc = IF a.err THEN "exit1"
                               ELSE IF a.vols > 0 THEN "afterLoop"
                               ELSE "loopHead"]
    /\ UNCHANGED <<volVars, netVars, codec, poller>>

\* reusableVolFoundInAZ := len(describedVols) > 0, then the lease check or
\* the create branch
QueryAfterLoop ==
    /\ query.pc = "afterLoop"
    /\ query' = [query EXCEPT !.pc = IF query.describedVols > 0 THEN "leaseCheck" ELSE "create"]
    /\ UNCHANGED <<volVars, netVars, codec, poller>>

\* a second passes while the run waits in the select or for the backend;
\* the context expires at its deadline
QueryTick ==
    /\ query.pc \in {"select", "describe"}
    /\ query.elapsed < QueryTimeout
    /\ query' = [query EXCEPT
                   !.elapsed = @ + 1,
                   !.ctx = IF @ = CtxLive /\ query.elapsed + 1 >= QueryTimeout
                           THEN DeadlineExceeded ELSE @]
    /\ UNCHANGED <<volVars, netVars, codec, poller>>

NextQuery ==
    \/ QueryLoopHead
    \/ QuerySelect
    \/ QueryDescribe
    \/ QueryAfterLoop
    \/ QueryTick

SpecQuery == InitQuery /\ [][NextQuery]_vars

EmptyAnswers ==
    {i \in DOMAIN query.answers : ~query.answers[i].err /\ query.answers[i].vols = 0}

\* C33: the run goes to the create branch only after more than one empty
\* answer of the reuse query
C33_CreateAfterRepeatedQuery ==
    query.pc = "create" => Cardinality(EmptyAnswers) > 1

AvailableEvent(ev) == ev.err = "nil" /\ ev.res.state = "available"

\* C34: the run that created a volume goes on to the attach request only
\* after the channel of the wait was closed and the last event received had
\* a nil error and showed the volume available; a wait that ended in any
\* other way ended the process with a non-zero status
C34_AttachAfterAvailable ==
    poller.pc # "off" =>
      /\ (poller.desired = "available" /\ poller.consumer = "proceed") =>
           /\ ChannelClosed
           /\ poller.received = Len(poller.events)
           /\ poller.volStatus = LastEvent(poller)
           /\ AvailableEvent(poller.volStatus)
      /\ (poller.desired = "available" /\ poller.consumer # "range"
            /\ ~AvailableEvent(poller.volStatus)) =>
           poller.consumer \in {"exit1", "panic"}

\* the run went on after a tick that showed the volume still creating and a
\* later tick that showed it available
C34_Witness ==
    /\ poller.pc # "off"
    /\ poller.desired = "available"
    /\ poller.consumer = "proceed"
    /\ Len(poller.events) >= 2
    /\ poller.events[1].err = "nil"
    /\ poller.events[1].res.state = "creating"

\* ======================================================================
\* Further properties of the pollers
\* ======================================================================

\* C35: a tick of a poll that waits for deletion and finds the resource
\* absent sends one event with a nil error and closes the channel
C35_DeletedAsDesiredEndsPoll ==
    [][(DescribeStep /\ DeleteTarget(poller) /\ ShowsAbsent(poller, StepAnswer))
         => /\ poller'.pc = "closed"
            /\ Len(poller'.events) = Len(poller.events) + 1
            /\ Sends(Event(NoResource, "nil"))]_vars

\* a poll for deletion has ended on a nil-error event without a resource,
\* after an earlier tick
C35_Witness ==
    /\ poller.pc = "closed"
    /\ DeleteTarget(poller)
    /\ Len(poller.events) >= 2
    /\ LastEvent(poller) = Event(NoResource, "nil")

\* the step closes the channel
CloseStep == poller.pc # "closed" /\ poller'.pc = "closed"

\* the event ev, sent by a closing step, says why the poll ended: a nil error
\* for a tick that found the target or the deletion waited for, else the error
\* of the stop, of the refused call, or of the tick that ended the poll
FinalEventOf(ev) ==
    IF ev.err = "nil"
    THEN /\ DescribeStep
         /\ \/ ShowsTarget(poller, StepAnswer)
            \/ DeleteTarget(poller) /\ ShowsAbsent(poller, StepAnswer)
    ELSE \/ ev.err \in StopErrors(poller)
         \/ poller.pc = "start" /\ ev.err = "empty volume state"
         \/ /\ DescribeStep
            /\ \/ ev.err = StepAnswer.err
               \/ TerminalFailure(poller, StepAnswer)

\* C36: the step that closes the channel sends exactly one event, which says
\* why the poll ended, and once the channel is closed it stays closed and no
\* event is sent on it
C36_ClosedOnceAfterFinalEvent ==
    [][/\ CloseStep =>
            /\ Len(poller'.events) = Len(poller.events) + 1
            /\ Sends(LastEvent(poller'))
            /\ FinalEventOf(LastEvent(poller'))
       /\ poller.pc = "closed" =>
            /\ poller'.pc = "closed"
            /\ poller'.events = poller.events]_vars

\* a poll that was stopped after some ticks has ended with the stop error and
\* the consumer has received every event
C36_Witness ==
    /\ poller.pc = "closed"
    /\ poller.stopc
    /\ Len(poller.events) >= 2
    /\ poller.received = Len(poller.events)
    /\ LastEvent(poller).err = "wait stopped"

\* ======================================================================
\* The lease value
\* ======================================================================

\* the value is not two parts separated by "_" with an integer as the second
MalformedLease(value) ==
    LET ss == Split(value, "_") IN
    Len(ss) # 2 \/ ~ParseInt(ss[2]).ok

\* volume v is available to the reuse query and carries a malformed lease
AvailableWithMalformedLease(v) ==
    /\ AvailableFilter(v)
    /\ volLeaseHoldKey \in DOMAIN vols[v].tags
    /\ MalformedLease(vols[v].tags[volLeaseHoldKey])

\* C37: while the only volume of the pool is available with a malformed
\* lease, every run is before its reuse query or has exited with status 1,
\* no run has written a tag, created a volume or sent an attach request,
\* and nothing has been published or recorded on a node
C37_MalformedLeaseStopsRun ==
    \A v \in VolIds :
        (AvailableWithMalformedLease(v) /\ \A w \in VolIds \ {v} : vols[w] = AbsentVolume) =>
            \A n \in Instances :
                /\ proc[n].pc \in {"start", "describeAvail", "leaseExit", "failed"}
                /\ proc[n].calls = {}
                /\ instanceTags[n] = 0
                /\ curEBSVolIDFile[n] = NoFile

\* a run has exited from the lease check on a malformed lease whose first
\* part is its own instance id
C37_Witness ==
    \E n \in Instances : \E v \in VolIds :
        /\ AvailableWithMalformedLease(v)
        /\ Split(vols[v].tags[volLeaseHoldKey], "_")[1] = <<n>>
        /\ proc[n].pc = "leaseExit"


\* ------------------------------------------------ termination of the wait
\* the goroutine of PollVolume and the range loop of the provisioner are
\* scheduled, time.After delivers, and the 5-minute deadline of
\* context.WithTimeout passes
SpecWaitFair ==
    /\ InitWait
    /\ [][NextWait]_vars
    /\ WF_vars(Goroutine)
    /\ WF_vars(TimerFires)
    /\ WF_vars(Deadline)
    /\ WF_vars(Consume)
    /\ WF_vars(AfterRange)

WaitEnded == poller.consumer \in {"proceed", "exit1", "panic"}

\* os.Exit(1) from inside the range loop
ExitInRange == poller.pc = "exited" /\ poller.consumer = "exit1"

\* C38: every wait of the volume provisioner on a poll ends, with the run
\* proceeding or with a non-zero exit, because the poll is bounded by the
\* deadline of its context; an exit taken inside the range loop (a signal or
\* a done context seen while an event is consumed) has closed the stop
\* channel
C38_WaitTerminates ==
    /\ <>WaitEnded
    /\ [](ExitInRange => poller.stopc)

\* a signal ended the run before the deadline of the wait
C38_Witness == ExitInRange /\ poller.ctx = CtxLive /\ poller.stopc


\* ------------------------------------------- round trip of the lease value
MaxIdLen == 3

\* characters of an instance id: a letter, the dash, a digit, the separator
IdChars == {"i", "-", "1", "_"}

LeaseIds == UNION {[1..k -> IdChars] : k \in 0..MaxIdLen}

\* values of time.Now().UTC().Unix(), and one before the epoch
LeaseTimes == {-1, 0, 1, 9, 10, 109, 1662596730, 2147483647}

LeaseHoldChars_NoSeparator(id, unixTS) == id \o FormatInt(unixTS)

\* localInstanceID + "_" + fmt.Sprintf("%d", unixTS), character by character
LeaseHoldChars(id, unixTS) == id \o <<"_">> \o FormatInt(unixTS)

InitLease ==
    /\ \E id \in LeaseIds, ts \in LeaseTimes :
         query = [pc |-> "lease", localInstanceID |-> id, unixTS |-> ts,
                  value |-> <<>>, leaseHolder |-> <<>>, leasedAt |-> 0]
    /\ codec = IdleCodec
    /\ poller = IdlePoller
    /\ VolIdle
    /\ NetIdle

\* the tag value of the create or tag request
LeaseWrite ==
    /\ query.pc = "lease"
    /\ query' = [query EXCEPT
                   !.pc = "tagged",
                   !.value = LeaseHoldChars(query.localInstanceID, query.unixTS)]
    /\ UNCHANGED <<volVars, netVars, codec, poller>>

\* the claim check of a later run reads the tag value
LeaseRead ==
    /\ query.pc = "tagged"
    /\ LET ss == Split(query.value, "_") IN
       IF Len(ss) # 2
       THEN query' = [query EXCEPT !.pc = "exit1"]
       ELSE LET leasedAt == ParseInt(ss[2]) IN
            IF ~leasedAt.ok
            THEN query' = [query EXCEPT !.pc = "exit1"]
            ELSE query' = [query EXCEPT !.pc = "checked",
                                        !.leaseHolder = ss[1],
                                        !.leasedAt = leasedAt.val]
    /\ UNCHANGED <<volVars, netVars, codec, poller>>

NextLease ==
    \/ LeaseWrite
    \/ LeaseRead

SpecLease == InitLease /\ [][NextLease]_vars

NoSeparatorIn(id) == \A i \in DOMAIN id : id[i] # "_"

\* C39: the lease value written for an instance id without "_" and a
\* non-negative timestamp is read back by the claim check as two parts, the
\* same holder and the same timestamp
C39_LeaseRoundTrip ==
    /\ query.pc \in {"checked", "exit1"}
    /\ NoSeparatorIn(query.localInstanceID)
    /\ query.unixTS >= 0
    => /\ query.pc = "checked"
       /\ query.leaseHolder = query.localInstanceID
       /\ query.leasedAt = query.unixTS

\* an id with a dash and a digit and a ten-digit timestamp were read back
C39_Witness ==
    /\ query.pc = "checked"
    /\ query.localInstanceID = <<"i", "-", "1">>
    /\ query.unixTS = 1662596730
    /\ query.leaseHolder = <<"i", "-", "1">>
    /\ query.leasedAt = 1662596730

================================================================
